---------------------------- MODULE Spec2Model ----------------------------
(***************************************************************************)
(* State-machine model of SiteCrawler (src/src/crawler.ts): one run of     *)
(* analyzeSite() against a nondeterministic web site.                      *)
(*                                                                         *)
(* Strings whose characters the code inspects (URL paths, link texts) are  *)
(* sequences of one-character strings, so the regular expressions of the   *)
(* code are computed, not tabulated.  A URL string is the record           *)
(* [origin, path]: the text of the origin followed by the rest of the      *)
(* string (path, query, fragment); Str gives its characters.               *)
(***************************************************************************)
EXTENDS Integers, Sequences, FiniteSets, TLC

(***************************************************************************)
(* Bounds of the model                                                     *)
(***************************************************************************)
\* largest page budget handed to the constructor
MaxPagesBound == 4

(***************************************************************************)
(* Character-sequence helpers                                              *)
(***************************************************************************)
EndsWith(s, t) ==
    /\ Len(t) <= Len(s)
    /\ SubSeq(s, Len(s) - Len(t) + 1, Len(s)) = t

StartsWith(s, t) ==
    /\ Len(t) <= Len(s)
    /\ SubSeq(s, 1, Len(t)) = t

Contains(s, t) ==
    \E i \in 1..(Len(s) - Len(t) + 1) : SubSeq(s, i, i + Len(t) - 1) = t

\* String.prototype.replace(/\/$/, '')
StripTrailingSlash(s) ==
    IF Len(s) > 0 /\ s[Len(s)] = "/" THEN SubSeq(s, 1, Len(s) - 1) ELSE s

LowerChar(c) ==
    CASE c = "A" -> "a"
      [] c = "B" -> "b"
      [] c = "C" -> "c"
      [] c = "D" -> "d"
      [] c = "E" -> "e"
      [] c = "F" -> "f"
      [] c = "G" -> "g"
      [] c = "H" -> "h"
      [] c = "I" -> "i"
      [] c = "J" -> "j"
      [] c = "K" -> "k"
      [] c = "L" -> "l"
      [] c = "M" -> "m"
      [] c = "N" -> "n"
      [] c = "O" -> "o"
      [] c = "P" -> "p"
      [] c = "Q" -> "q"
      [] c = "R" -> "r"
      [] c = "S" -> "s"
      [] c = "T" -> "t"
      [] c = "U" -> "u"
      [] c = "V" -> "v"
      [] c = "W" -> "w"
      [] c = "X" -> "x"
      [] c = "Y" -> "y"
      [] c = "Z" -> "z"
      [] OTHER -> c

\* String.prototype.toLowerCase, and matching under the i flag
Lower(s) == [i \in 1..Len(s) |-> LowerChar(s[i])]

(***************************************************************************)
(* URL strings                                                             *)
(***************************************************************************)
\* origin of a relative reference, and of a string the URL parser rejects
Relative == ""
Malformed == "http://["

BaseOrigin == "https://h"
OtherOrigin == "https://x"
Origins == {BaseOrigin, OtherOrigin}

\* URL.hostname
Hostname(origin) ==
    CASE origin = "https://h" -> "h"
      [] origin = "https://x" -> "x"

Url(o, p) == [origin |-> o, path |-> p]

\* the characters of an origin
OriginChars(o) ==
    CASE o = "https://h" -> <<"h", "t", "t", "p", "s", ":", "/", "/", "h">>
      [] o = "https://x" -> <<"h", "t", "t", "p", "s", ":", "/", "/", "x">>
      [] o = "http://[" -> <<"h", "t", "t", "p", ":", "/", "/", "[">>
      [] OTHER -> <<>>

\* the characters of a URL string
Str(s) == OriginChars(s.origin) \o s.path

\* new URL(s): succeeds for an absolute URL (parses)
Parses(s) == s.origin \in Origins

\* new URL(s).toString(): the serializer writes an empty path as "/"
Serialize(s) == Url(s.origin, IF s.path = <<>> THEN <<"/">> ELSE s.path)

\* new URL(s, base): succeeds for an absolute URL, and for a relative
\* reference when the base parses
ParsesWithBase(s, base) ==
    \/ Parses(s)
    \/ s.origin = Relative /\ Parses(base)

\* new URL(s, base).toString() for the references of the universe:
\* absolute URLs, path-absolute references ("/...") and fragments ("#...")
SerializeWithBase(s, base) ==
    IF Parses(s) THEN Serialize(s)
    ELSE IF StartsWith(s.path, <<"#">>)
         THEN Url(base.origin, Serialize(base).path \o s.path)
         ELSE Serialize(Url(base.origin, s.path))

(***************************************************************************)
(* resolveUrl / shouldVisit                                                *)
(***************************************************************************)
\* resolveUrl: new URL(url, baseUrl).toString(), the input itself on a throw
resolveUrl(url, base) ==
    IF ParsesWithBase(url, base) THEN SerializeWithBase(url, base) ELSE url

\* /\.(jpg|jpeg|png|gif|svg|pdf|zip|css|js|json|xml)$/i
VisitExcludeExts ==
    { <<"j", "p", "g">>,
      <<"j", "p", "e", "g">>,
      <<"p", "n", "g">>,
      <<"g", "i", "f">>,
      <<"s", "v", "g">>,
      <<"p", "d", "f">>,
      <<"z", "i", "p">>,
      <<"c", "s", "s">>,
      <<"j", "s">>,
      <<"j", "s", "o", "n">>,
      <<"x", "m", "l">> }

\* /\/(api|cdn|static|assets|media)\//i
VisitExcludeDirs ==
    { <<"a", "p", "i">>,
      <<"c", "d", "n">>,
      <<"s", "t", "a", "t", "i", "c">>,
      <<"a", "s", "s", "e", "t", "s">>,
      <<"m", "e", "d", "i", "a">> }

\* the two excludePatterns of shouldVisit, tested on the URL string
VisitExcluded(url) ==
    \E s \in {Lower(Str(url))} :
        \/ \E e \in VisitExcludeExts : EndsWith(s, <<".">> \o e)
        \/ \E d \in VisitExcludeDirs : Contains(s, <<"/">> \o d \o <<"/">>)

\* shouldVisit without the hostname test
shouldVisitAnyHost(url, base) ==
    IF ~(Parses(url) /\ Parses(base)) THEN FALSE
    ELSE ~VisitExcluded(url)

shouldVisit(url, base) ==
    IF ~(Parses(url) /\ Parses(base)) THEN FALSE
    ELSE IF Hostname(url.origin) # Hostname(base.origin) THEN FALSE
    ELSE ~VisitExcluded(url)

(***************************************************************************)
(* Enumerations of types.ts                                                *)
(***************************************************************************)
PDP == "Product Detail Page"
PLP == "Product Listing Page"
CATEGORY == "Category Page"
HOME == "Home Page"
SEARCH == "Search Results Page"
CART == "Cart Page"
CHECKOUT == "Checkout Page"
ACCOUNT == "Account Page"
CONTENT == "Content/CMS Page"
UNKNOWN == "Unknown"

PageTemplateType ==
    {PDP, PLP, CATEGORY, HOME, SEARCH, CART, CHECKOUT, ACCOUNT, CONTENT, UNKNOWN}

\* EntityType.PRODUCT
EntityProduct == "product"

EntityCategory == "category"

(***************************************************************************)
(* Parsed documents.  A document is the summary of what the selectors of   *)
(* the code find in it:                                                    *)
(*   addToCart, productTitle, productImage, sku : an element matches       *)
(*   priceCount, cartEls : number of matching elements                     *)
(*   filters, pagination, searchResults : an element matches               *)
(*   anchors : the <a> elements in document order, each                    *)
(*     [href, text, nav, cls, inProd]: nav is the set of positions in      *)
(*     navSelectors of the selectors the anchor matches, cls says its      *)
(*     class contains "product", inProd that an ancestor's class does.     *)
(***************************************************************************)
\* attr('href') of an anchor without the attribute
NoHref == Url("undefined", <<>>)

\* JavaScript truthiness of a string
TruthyHref(h) == h # NoHref /\ ~(h.origin = Relative /\ h.path = <<>>)
TruthyText(t) == t # <<>>

Anchor(h, t, n, c, i) == [href |-> h, text |-> t, nav |-> n, cls |-> c, inProd |-> i]

Doc(atc, title, image, prices, sku, filt, pag, carts, sres, as) ==
    [addToCart |-> atc, productTitle |-> title, productImage |-> image,
     priceCount |-> prices, sku |-> sku, filters |-> filt, pagination |-> pag,
     cartEls |-> carts, searchResults |-> sres, anchors |-> as]

\* String.prototype.includes on a URL string
UrlIncludes(url, t) == Contains(Str(url), t)

\* isProductDetailPage: at least 2 of the 5 indicators
PdpIndicators(d) ==
    <<d.addToCart, d.productTitle, d.productImage,
      d.priceCount > 0 /\ d.priceCount < 10, d.sku>>

\* isProductDetailPage asking for a majority of the indicators
isProductDetailPageMajority(d) ==
    Cardinality({i \in 1..5 : PdpIndicators(d)[i]}) >= 3

isProductDetailPage(d) ==
    Cardinality({i \in 1..5 : PdpIndicators(d)[i]}) >= 2

\* a[href*="/product"], a[href*="/p/"], a[href*="/item"]
HrefHas(a, t) == a.href # NoHref /\ Contains(Str(a.href), t)

SelProduct(a) == HrefHas(a, <<"/", "p", "r", "o", "d", "u", "c", "t">>)
SelP(a) == HrefHas(a, <<"/", "p", "/">>)
SelItem(a) == HrefHas(a, <<"/", "i", "t", "e", "m">>)

\* isCategoryPage
isCategoryPage(d) ==
    LET productLinks ==
          Cardinality({i \in 1..Len(d.anchors) :
              SelProduct(d.anchors[i]) \/ SelP(d.anchors[i]) \/ d.anchors[i].cls})
    IN  productLinks > 5 \/ (productLinks > 2 /\ (d.filters \/ d.pagination))

\* isCartPage
isCartPage(d, url) ==
    \/ UrlIncludes(url, <<"/", "c", "a", "r", "t">>)
    \/ UrlIncludes(url, <<"/", "b", "a", "s", "k", "e", "t">>)
    \/ d.cartEls > 3

\* isSearchPage
isSearchPage(d, url) ==
    \/ UrlIncludes(url, <<"s", "e", "a", "r", "c", "h">>)
    \/ UrlIncludes(url, <<"?", "q", "=">>)
    \/ UrlIncludes(url, <<"?", "q", "u", "e", "r", "y", "=">>)
    \/ d.searchResults

\* the chain with the root-URL test ahead of the category test
ClassifyTypeHomeFirst(url, d, base) ==
    IF isProductDetailPage(d) THEN PDP
    ELSE IF url = base \/ url = Url(base.origin, base.path \o <<"/">>) THEN HOME
    ELSE IF isCategoryPage(d) THEN CATEGORY
    ELSE IF isCartPage(d, url) THEN CART
    ELSE IF isSearchPage(d, url) THEN SEARCH
    ELSE UNKNOWN

\* the priority chain of analyzePageTemplate
ClassifyType(url, d, base) ==
    IF isProductDetailPage(d) THEN PDP
    ELSE IF isCategoryPage(d) THEN CATEGORY
    ELSE IF url = base \/ url = Url(base.origin, base.path \o <<"/">>) THEN HOME
    ELSE IF isCartPage(d, url) THEN CART
    ELSE IF isSearchPage(d, url) THEN SEARCH
    ELSE UNKNOWN

\* analyzePageTemplate: the PageTemplate built for a page (type and example)
analyzePageTemplate(url, d, base) ==
    [type |-> ClassifyType(url, d, base), exampleUrls |-> <<url>>]

(***************************************************************************)
(* looksLikeCategoryLink                                                   *)
(***************************************************************************)
\* /\/(login|signup|account|profile|cart|checkout|about|contact|help|faq|privacy|terms)/i
ExcludeWords1 ==
    { <<"l", "o", "g", "i", "n">>,
      <<"s", "i", "g", "n", "u", "p">>,
      <<"a", "c", "c", "o", "u", "n", "t">>,
      <<"p", "r", "o", "f", "i", "l", "e">>,
      <<"c", "a", "r", "t">>,
      <<"c", "h", "e", "c", "k", "o", "u", "t">>,
      <<"a", "b", "o", "u", "t">>,
      <<"c", "o", "n", "t", "a", "c", "t">>,
      <<"h", "e", "l", "p">>,
      <<"f", "a", "q">>,
      <<"p", "r", "i", "v", "a", "c", "y">>,
      <<"t", "e", "r", "m", "s">> }

\* /\.(jpg|jpeg|png|gif|svg|pdf|zip)$/i
ExcludeExts ==
    { <<"j", "p", "g">>,
      <<"j", "p", "e", "g">>,
      <<"p", "n", "g">>,
      <<"g", "i", "f">>,
      <<"s", "v", "g">>,
      <<"p", "d", "f">>,
      <<"z", "i", "p">> }

\* /^(mailto:|tel:|#)/
ExcludePrefixes ==
    { <<"m", "a", "i", "l", "t", "o", ":">>,
      <<"t", "e", "l", ":">>,
      <<"#">> }

\* /\/(search|blog|news|article)/i
ExcludeWords2 ==
    { <<"s", "e", "a", "r", "c", "h">>,
      <<"b", "l", "o", "g">>,
      <<"n", "e", "w", "s">>,
      <<"a", "r", "t", "i", "c", "l", "e">> }

\* some excludePattern matches the string s
MatchesExclude(s) ==
    \/ \E w \in ExcludeWords1 : Contains(Lower(s), <<"/">> \o w)
    \/ \E e \in ExcludeExts : EndsWith(Lower(s), <<".">> \o e)
    \/ \E p \in ExcludePrefixes : StartsWith(s, p)
    \/ \E w \in ExcludeWords2 : Contains(Lower(s), <<"/">> \o w)

\* /\/(category|categories|c|cat|collection|collections|dept|department)/i
IncludeWords ==
    { <<"c", "a", "t", "e", "g", "o", "r", "y">>,
      <<"c", "a", "t", "e", "g", "o", "r", "i", "e", "s">>,
      <<"c">>,
      <<"c", "a", "t">>,
      <<"c", "o", "l", "l", "e", "c", "t", "i", "o", "n">>,
      <<"c", "o", "l", "l", "e", "c", "t", "i", "o", "n", "s">>,
      <<"d", "e", "p", "t">>,
      <<"d", "e", "p", "a", "r", "t", "m", "e", "n", "t">> }

\* [a-z0-9-]
SlugChars ==
    { "a", "b", "c", "d", "e", "f", "g", "h", "i", "j", "k", "l", "m",
      "n", "o", "p", "q", "r", "s", "t", "u", "v", "w", "x", "y", "z",
      "0", "1", "2", "3", "4", "5", "6", "7", "8", "9", "-" }

\* /^\/[a-z0-9-]+\/?$/
MatchesSimplePath(s) ==
    LET body == StripTrailingSlash(SubSeq(s, 2, Len(s)))
    IN  /\ Len(s) >= 2
        /\ s[1] = "/"
        /\ Len(body) >= 1
        /\ \A i \in 1..Len(body) : body[i] \in SlugChars

MatchesInclude(s) ==
    \/ \E w \in IncludeWords : Contains(Lower(s), <<"/">> \o w)
    \/ MatchesSimplePath(s)

categoryWords ==
    { <<"s", "h", "o", "p">>,
      <<"m", "e", "n">>,
      <<"w", "o", "m", "e", "n">>,
      <<"k", "i", "d", "s">>,
      <<"s", "a", "l", "e">>,
      <<"n", "e", "w">>,
      <<"e", "l", "e", "c", "t", "r", "o", "n", "i", "c", "s">>,
      <<"c", "l", "o", "t", "h", "i", "n", "g">>,
      <<"h", "o", "m", "e">> }

\* looksLikeCategoryLink with the include patterns tried first
looksLikeCategoryLinkIncludeFirst(href, text) ==
    IF MatchesInclude(Str(href)) THEN TRUE
    ELSE IF MatchesExclude(Str(href)) \/ MatchesExclude(text) THEN FALSE
    ELSE \E w \in categoryWords : Contains(Lower(text), w)

looksLikeCategoryLink(href, text) ==
    IF MatchesExclude(Str(href)) \/ MatchesExclude(text) THEN FALSE
    ELSE IF MatchesInclude(Str(href)) THEN TRUE
    ELSE \E w \in categoryWords : Contains(Lower(text), w)

(***************************************************************************)
(* extractCategoryLinks / extractProductLinks                              *)
(***************************************************************************)
\* number of entries of navSelectors, and the slice limits
NavSelectorCount == 8
CategoryLinkLimit == 20
ProductLinkLimit == 10

Min(a, b) == IF a < b THEN a ELSE b

MatchesNav(a, sel) == sel \in a.nav

\* String.prototype.trim
WhiteSpace == {" ", "\t", "\n"}

RECURSIVE TrimStart(_)
TrimStart(s) ==
    IF s # <<>> /\ Head(s) \in WhiteSpace THEN TrimStart(Tail(s)) ELSE s

RECURSIVE TrimEnd(_)
TrimEnd(s) ==
    IF s # <<>> /\ s[Len(s)] \in WhiteSpace THEN TrimEnd(SubSeq(s, 1, Len(s) - 1)) ELSE s

Trim(s) == TrimEnd(TrimStart(s))

\* $(selector).each for navSelectors[sel], [sel + 1], ...: the anchors
\* visited, in order
RECURSIVE NavVisitOrder(_, _)
NavVisitOrder(as, sel) ==
    IF sel > NavSelectorCount THEN <<>>
    ELSE SelectSeq(as, LAMBDA a : MatchesNav(a, sel)) \o NavVisitOrder(as, sel + 1)


\* the callback of extractCategoryLinks applied to the visited anchors
RECURSIVE CollectCategoryLinks(_, _, _)
CollectCategoryLinks(as, seen, links) ==
    IF as = <<>> THEN links
    ELSE LET a == Head(as)
             text == Trim(a.text)
             keep == /\ TruthyHref(a.href)
                     /\ TruthyText(text)
                     /\ a.href \notin seen
                     /\ \E h \in {a.href}, t \in {text} : looksLikeCategoryLink(h, t)
         IN  IF keep
             THEN CollectCategoryLinks(Tail(as), seen \cup {a.href},
                      Append(links, [text |-> text, url |-> a.href]))
             ELSE CollectCategoryLinks(Tail(as), seen, links)

\* extractCategoryLinks returning every link collected
extractCategoryLinksUnsliced(d) ==
    CollectCategoryLinks(NavVisitOrder(d.anchors, 1), {}, <<>>)

extractCategoryLinks(d) ==
    LET links == CollectCategoryLinks(
                     NavVisitOrder(d.anchors, 1), {}, <<>>)
    IN  SubSeq(links, 1, Min(CategoryLinkLimit, Len(links)))

ProductSelectorCount == 5

MatchesProduct(a, sel) ==
    CASE sel = 1 -> SelProduct(a)
      [] sel = 2 -> SelP(a)
      [] sel = 3 -> SelItem(a)
      [] sel = 4 -> a.cls
      [] sel = 5 -> a.inProd

RECURSIVE ProductVisitOrder(_, _)
ProductVisitOrder(as, sel) ==
    IF sel > ProductSelectorCount THEN <<>>
    ELSE SelectSeq(as, LAMBDA a : MatchesProduct(a, sel))
         \o ProductVisitOrder(as, sel + 1)

RECURSIVE CollectProductLinks(_, _, _)
CollectProductLinks(as, seen, links) ==
    IF as = <<>> THEN links
    ELSE LET a == Head(as)
         IN  IF TruthyHref(a.href) /\ a.href \notin seen
             THEN CollectProductLinks(Tail(as), seen \cup {a.href},
                      Append(links, [text |-> Trim(a.text), url |-> a.href]))
             ELSE CollectProductLinks(Tail(as), seen, links)

extractProductLinks(d) ==
    LET links == CollectProductLinks(
                     ProductVisitOrder(d.anchors, 1), {}, <<>>)
    IN  SubSeq(links, 1, Min(ProductLinkLimit, Len(links)))

(***************************************************************************)
(* The web site: the documents and responses a fetch can produce           *)
(***************************************************************************)
hrefA == Url(Relative, <<"/", "a">>)
hrefAabs == Url(BaseOrigin, <<"/", "a">>)
hrefB == Url(Relative, <<"/", "b">>)
hrefSlash == Url(Relative, <<"/">>)
hrefJs == Url(Relative, <<"/", "a", ".", "j", "s">>)
hrefLogin == Url(Relative, <<"/", "l", "o", "g", "i", "n">>)
hrefOther == Url(OtherOrigin, <<"/", "c">>)
hrefBad == Url(Malformed, <<"/", "c">>)
hrefP1 == Url(Relative, <<"/", "p", "/", "1">>)
hrefP2Other == Url(OtherOrigin, <<"/", "p", "/", "2">>)

txtShop == <<"S", "h", "o", "p">>
txtSale == <<"S", "a", "l", "e">>
txtMen == <<"M", "e", "n">>
txtHome == <<"H", "o", "m", "e">>
txtSignIn == <<"S", "i", "g", "n", " ", "I", "n">>
txtItem == <<"I", "t", "e", "m">>

\* navigation anchors (matched by 'nav a')
navA == Anchor(hrefA, txtShop, {1}, FALSE, FALSE)
navAabs == Anchor(hrefAabs, txtSale, {1, 2}, FALSE, FALSE)
navB == Anchor(hrefB, txtMen, {1}, FALSE, FALSE)
navSlash == Anchor(hrefSlash, txtHome, {1}, FALSE, FALSE)
navJs == Anchor(hrefJs, txtShop, {5}, FALSE, FALSE)
navLogin == Anchor(hrefLogin, txtSignIn, {1}, FALSE, FALSE)
navOther == Anchor(hrefOther, txtShop, {1}, FALSE, FALSE)
navBad == Anchor(hrefBad, txtShop, {1}, FALSE, FALSE)

\* product anchors
prodNoHref == Anchor(NoHref, txtItem, {}, TRUE, FALSE)
prodB == Anchor(hrefB, txtItem, {}, TRUE, FALSE)
prodP1 == Anchor(hrefP1, txtItem, {}, FALSE, FALSE)
prodOther == Anchor(hrefP2Other, txtItem, {}, FALSE, TRUE)

Nav1 == <<navA, navLogin, navAabs, navB>>
Nav2 == <<navOther, navJs, navBad, navSlash, navB>>

\* six product links, the first extracted one is /p/1
Grid1 == <<prodB, prodP1, prodNoHref, prodNoHref, prodNoHref, prodNoHref>>
\* three product links, the first extracted one is on another host
Grid2 == <<prodNoHref, prodOther, prodNoHref>>
\* three product links without href
Grid3 == <<prodNoHref, prodNoHref, prodNoHref>>

BlankDoc == Doc(FALSE, FALSE, FALSE, 0, FALSE, FALSE, FALSE, 0, FALSE, <<>>)
HomeDoc1 == Doc(FALSE, FALSE, FALSE, 0, FALSE, FALSE, FALSE, 0, FALSE, Nav1)
HomeDoc2 == Doc(FALSE, FALSE, FALSE, 12, FALSE, FALSE, FALSE, 0, FALSE, Nav2)
HomePdpDoc == Doc(TRUE, FALSE, FALSE, 3, FALSE, FALSE, FALSE, 0, FALSE, Nav1)
PdpDoc == Doc(TRUE, TRUE, FALSE, 1, FALSE, FALSE, FALSE, 0, FALSE, <<>>)
CatDoc1 == Doc(FALSE, FALSE, FALSE, 12, FALSE, FALSE, FALSE, 0, FALSE, Grid1)
CatDoc2 == Doc(TRUE, FALSE, FALSE, 0, FALSE, TRUE, FALSE, 0, FALSE, Grid2)
CatDoc3 == Doc(FALSE, FALSE, FALSE, 0, FALSE, FALSE, TRUE, 0, FALSE, Grid3)

Docs == {BlankDoc, HomeDoc1, HomeDoc2, HomePdpDoc, PdpDoc, CatDoc1, CatDoc2, CatDoc3}

\* the value fetchPage hands back: null, or the body text
NullHtml == [isNull |-> TRUE, empty |-> TRUE, doc |-> BlankDoc]
EmptyHtml == [isNull |-> FALSE, empty |-> TRUE, doc |-> BlankDoc]
Html(d) == [isNull |-> FALSE, empty |-> FALSE, doc |-> d]

\* JavaScript truthiness of string | null
Truthy(h) == ~h.isNull /\ ~h.empty

\* what the network does with a request: a 2xx response with a body, a
\* response with another status, or a rejected promise
OkOutcome(h) == [kind |-> "ok", body |-> h]
StatusOutcome == [kind |-> "status", body |-> NullHtml]
ErrorOutcome == [kind |-> "error", body |-> NullHtml]

Outcomes ==
    {OkOutcome(Html(d)) : d \in Docs} \cup {OkOutcome(EmptyHtml), StatusOutcome, ErrorOutcome}

SlugSeq ==
    <<"a", "b", "c", "d", "e", "f", "g", "h", "i", "j", "k", "l", "m",
      "n", "o", "p", "q", "r", "s", "t", "u", "v", "w", "x", "y", "z">>

LongAnchor(i) == Anchor(Url(Relative, <<"/", SlugSeq[i]>>), txtShop, {1}, FALSE, FALSE)

\* a navigation of n links to n different single-segment paths
LongNav(n) == [i \in 1..n |-> LongAnchor(i)]

\* a site with more navigation links than the extractor keeps: every link
\* leads to a category page whose first product link is its own, and no
\* product page looks like one, so sampling never stops
LongRoot == Url(BaseOrigin, <<"/", "l", "o", "n", "g">>)

LongNavLength == CategoryLinkLimit + 2

LongHomeDoc == [BlankDoc EXCEPT !.anchors = LongNav(LongNavLength)]

LongProductAnchor(slug, i) ==
    Anchor(Url(Relative, <<"/", "p", "/", slug, SlugSeq[i]>>), txtItem, {}, FALSE, FALSE)

LongCatDoc(slug) ==
    [BlankDoc EXCEPT !.filters = TRUE,
                     !.anchors = [i \in 1..3 |-> LongProductAnchor(slug, i)]]

LongSiteOutcome(u) ==
    IF u = LongRoot THEN OkOutcome(Html(LongHomeDoc))
    ELSE IF Len(u.path) = 2 THEN OkOutcome(Html(LongCatDoc(u.path[2])))
    ELSE OkOutcome(Html(BlankDoc))

\* what axios.get may do with the request for u on the site rooted at root
SiteOutcomes(root, u) == IF root = LongRoot THEN {LongSiteOutcome(u)} ELSE Outcomes

\* the raw URL strings handed to the constructor
RootUrls == {Url(BaseOrigin, <<>>), Url(BaseOrigin, <<"/">>), Url(BaseOrigin, <<"/", "b">>)}

RobotsTexts == {"", "Disallow: /"}

(***************************************************************************)
(* State                                                                   *)
(***************************************************************************)
VARIABLES
    url,            \* the URL string handed to the constructor
    baseUrl,        \* SiteCrawler.baseUrl
    maxPages,       \* SiteCrawler.maxPages
    visitedUrls,    \* SiteCrawler.visitedUrls
    templates,      \* analyzeSite: templates (type -> PageTemplate)
    entities,       \* analyzeSite: entities
    siteMap,        \* analyzeSite: siteMap
    robotsTxt,      \* analyzeSite: robotsTxt
    categoryLinks,  \* analyzeSite: categoryLinks
    idx,            \* position of the for-of loop in categoryLinks
    pc,             \* the await analyzeSite is suspended at
    inflight,       \* requests handed to fetch() and not yet settled
    result,         \* the SiteStructure analyzeSite resolved with
    requests,       \* history: page requests issued, in order
    responses,      \* history: how each page request settled
    robotsFetches   \* history: number of robots.txt requests issued

\* SiteAuditServer (src/src/index.ts)
VARIABLES
    siteCache,      \* SiteAuditServer.siteCache
    calls,          \* the tool calls received: arguments, progress, response
    nextCall,       \* number of the next tool call to arrive
    clock,          \* new Date(): the time analyzedAt is read from
    completions,    \* history: the analyze_site calls that returned, in order
    visitedSets     \* the heap: the contents of each Set a `new Set()` returned

\* a pure function applied to an input
VARIABLES
    hIn,            \* the input
    hOut            \* the value returned for it

crawlerVars ==
    <<url, baseUrl, maxPages, visitedUrls, templates, entities, siteMap,
      robotsTxt, categoryLinks, idx, pc, inflight, result, requests,
      responses, robotsFetches>>

serverVars == <<siteCache, calls, nextCall, clock, completions, visitedSets>>

functionVars == <<hIn, hOut>>

\* the state outside the crawler run
auxVars == <<serverVars, functionVars>>

vars == <<crawlerVars, serverVars, functionVars>>

\* largest number of tool calls the server receives
MaxCalls == 3

CallIds == 1..MaxCalls

\* the empty string
EmptyUrl == Url(Relative, <<>>)

\* the url arguments of the tool calls
CallUrls == {EmptyUrl, Url(BaseOrigin, <<>>), Url(BaseOrigin, <<"/">>)}

\* Map.get of a key that is not in the map
NoModel == [cached |-> FALSE]

NoCall == [state |-> "idle"]

NoInput == [fn |-> "none"]
NoOutput == [fn |-> "none"]

\* new SiteAuditServer(): empty cache, no call received
ServerIdle ==
    /\ siteCache = [k \in CallUrls |-> NoModel]
    /\ calls = [c \in CallIds |-> NoCall]
    /\ nextCall = 1
    /\ clock = 0
    /\ completions = <<>>
    /\ visitedSets = [r \in CallIds |-> {}]

\* no function is being applied
FunctionsIdle ==
    /\ hIn = NoInput
    /\ hOut = NoOutput

NoTemplate == [type |-> "none", exampleUrls |-> <<>>]
NoResult == [returned |-> FALSE]
RobotsUrl(base) == Url(base.origin, base.path \o <<"/", "r", "o", "b", "o", "t", "s", ".", "t", "x", "t">>)

\* constructor
Init ==
    /\ url \in RootUrls
    /\ baseUrl = Url(url.origin, StripTrailingSlash(url.path))
    /\ maxPages \in 0..MaxPagesBound
    /\ visitedUrls = {}
    /\ templates = [t \in PageTemplateType |-> NoTemplate]
    /\ entities = <<>>
    /\ siteMap = <<>>
    /\ robotsTxt = "undefined"
    /\ categoryLinks = <<>>
    /\ idx = 1
    /\ pc = "start"
    /\ inflight = <<>>
    /\ result = NoResult
    /\ requests = <<>>
    /\ responses = <<>>
    /\ robotsFetches = 0
    /\ ServerIdle
    /\ FunctionsIdle

(***************************************************************************)
(* fetchRobotsTxt                                                          *)
(***************************************************************************)
\* fetchRobotsTxt() called without await: analyzeSite goes on while the
\* robots.txt request is in flight
RobotsRequestNotAwaited ==
    /\ pc = "start"
    /\ inflight' = Append(inflight, RobotsUrl(baseUrl))
    /\ robotsFetches' = robotsFetches + 1
    /\ pc' = "root"
    /\ UNCHANGED <<url, baseUrl, maxPages, visitedUrls, templates, entities,
                   siteMap, robotsTxt, categoryLinks, idx, result, requests,
                   responses>>
    /\ UNCHANGED auxVars

RobotsRequest ==
    /\ pc = "start"
    /\ inflight' = Append(inflight, RobotsUrl(baseUrl))
    /\ robotsFetches' = robotsFetches + 1
    /\ pc' = "robots"
    /\ UNCHANGED <<url, baseUrl, maxPages, visitedUrls, templates, entities,
                   siteMap, robotsTxt, categoryLinks, idx, result, requests,
                   responses>>
    /\ UNCHANGED auxVars

\* the value fetchRobotsTxt resolves with
RobotsResult(kind, text) == IF kind = "ok" THEN text ELSE "undefined"

RobotsResponse ==
    /\ pc = "robots"
    /\ \E kind \in {"ok", "status", "error"}, text \in RobotsTexts :
          robotsTxt' = RobotsResult(kind, text)
    /\ inflight' = <<>>
    /\ pc' = "root"
    /\ UNCHANGED <<url, baseUrl, maxPages, visitedUrls, templates, entities,
                   siteMap, categoryLinks, idx, result, requests, responses,
                   robotsFetches>>
    /\ UNCHANGED auxVars

(***************************************************************************)
(* fetchPage                                                               *)
(***************************************************************************)
\* fetchPage without its guard
AlreadyVisitedUnchecked(u, visited) == FALSE

\* the guard of fetchPage: the URL was handed to fetchPage before
AlreadyVisited(u, visited) == u \in visited

\* fetchPage without its try/catch: a rejected fetch() rejects fetchPage
FetchPageResultUncaught(outcome) ==
    [threw |-> outcome.kind = "error",
     html |-> IF outcome.kind = "ok" THEN outcome.body ELSE NullHtml]

\* fetchPage without the response.ok test: the body of an error response is
\* handed back as the page
FetchPageResultAnyStatus(outcome) ==
    [threw |-> FALSE,
     html |-> IF outcome.kind = "ok" THEN outcome.body
              ELSE IF outcome.kind = "status" THEN Html(BlankDoc)
              ELSE NullHtml]

\* how fetchPage settles once fetch() has: the try/catch turns a rejected
\* promise into null, a response that is not ok gives null
FetchPageResult(outcome) ==
    [threw |-> FALSE,
     html |-> IF outcome.kind = "ok" THEN outcome.body ELSE NullHtml]

\* history record of a settled page request
Settled(u, stage, outcome, type) ==
    [url |-> u, stage |-> stage,
     kind |-> IF outcome.kind = "ok" /\ outcome.body.empty THEN "empty" ELSE outcome.kind,
     type |-> type]

(***************************************************************************)
(* analyzeSite                                                             *)
(***************************************************************************)
\* the loop without a budget
BudgetExhaustedNever(visited, max) == FALSE

\* the break condition with > for >=
BudgetExhaustedLate(visited, max) == Cardinality(visited) > max

\* the break condition of the loop over categoryLinks
BudgetExhausted(visited, max) == Cardinality(visited) >= max

\* templates.set(type, template) without the has() test
SetAlways(tm, type, t) == [tm EXCEPT ![type] = t]

\* if (!templates.has(type)) templates.set(type, template)
SetIfAbsent(tm, type, t) ==
    IF tm[type] = NoTemplate THEN [tm EXCEPT ![type] = t] ELSE tm

\* every visited candidate recorded under its type
IsCategoryTypeAny(type) == TRUE

\* the page is recorded as a category
IsCategoryType(type) == type = CATEGORY \/ type = PLP

\* the sampling test without !templates.has(PageTemplateType.PDP)
ShouldSampleEveryCategory(productLinks, tm) ==
    Len(productLinks) > 0

\* a product is sampled from the category page
ShouldSample(productLinks, tm) ==
    Len(productLinks) > 0 /\ tm[PDP] = NoTemplate

\* the candidate the loop is at, and its resolved URL
Link == categoryLinks[idx]
FullUrl == resolveUrl(Link.url, baseUrl)

\* fetchPage(baseUrl) up to its await
RootRequest ==
    /\ pc = "root"
    /\ IF AlreadyVisited(baseUrl, visitedUrls)
       THEN /\ pc' = "return"
            /\ UNCHANGED <<visitedUrls, inflight, requests>>
       ELSE /\ visitedUrls' = visitedUrls \cup {baseUrl}
            /\ inflight' = Append(inflight, baseUrl)
            /\ requests' = Append(requests, [url |-> baseUrl, stage |-> "root"])
            /\ pc' = "rootWait"
    /\ UNCHANGED <<url, baseUrl, maxPages, templates, entities, siteMap,
                   robotsTxt, categoryLinks, idx, result, responses,
                   robotsFetches>>
    /\ UNCHANGED auxVars

\* the homepage request settles: record the homepage, extract the candidates
RootResponse ==
    /\ pc = "rootWait"
    /\ \E outcome \in SiteOutcomes(baseUrl, baseUrl) :
         LET r == FetchPageResult(outcome)
             homeTemplate == analyzePageTemplate(baseUrl, r.html.doc, baseUrl)
         IN  /\ inflight' = <<>>
             /\ IF r.threw
                THEN /\ pc' = "threw"
                     /\ UNCHANGED <<templates, categoryLinks, responses>>
                ELSE IF Truthy(r.html)
                THEN /\ templates' = [templates EXCEPT ![HOME] = homeTemplate]
                     /\ categoryLinks' = extractCategoryLinks(r.html.doc)
                     /\ responses' = Append(responses,
                           Settled(baseUrl, "root", outcome, homeTemplate.type))
                     /\ pc' = "loop"
                ELSE /\ responses' = Append(responses,
                           Settled(baseUrl, "root", outcome, "none"))
                     /\ pc' = "return"
                     /\ UNCHANGED <<templates, categoryLinks>>
    /\ UNCHANGED <<url, baseUrl, maxPages, visitedUrls, entities, siteMap,
                   robotsTxt, idx, result, requests, robotsFetches>>
    /\ UNCHANGED auxVars

\* the loop has gone through every candidate
LoopExit ==
    /\ pc = "loop"
    /\ idx > Len(categoryLinks)
    /\ pc' = "return"
    /\ UNCHANGED <<url, baseUrl, maxPages, visitedUrls, templates, entities,
                   siteMap, robotsTxt, categoryLinks, idx, inflight, result,
                   requests, responses, robotsFetches>>
    /\ UNCHANGED auxVars

\* if (this.visitedUrls.size >= this.maxPages) break
LoopBreak ==
    /\ pc = "loop"
    /\ idx <= Len(categoryLinks)
    /\ BudgetExhausted(visitedUrls, maxPages)
    /\ pc' = "return"
    /\ UNCHANGED <<url, baseUrl, maxPages, visitedUrls, templates, entities,
                   siteMap, robotsTxt, categoryLinks, idx, inflight, result,
                   requests, responses, robotsFetches>>
    /\ UNCHANGED auxVars

\* if (!this.shouldVisit(fullUrl)) continue
CandidateSkip ==
    /\ pc = "loop"
    /\ idx <= Len(categoryLinks)
    /\ ~BudgetExhausted(visitedUrls, maxPages)
    /\ ~shouldVisit(FullUrl, baseUrl)
    /\ idx' = idx + 1
    /\ UNCHANGED <<url, baseUrl, maxPages, visitedUrls, templates, entities,
                   siteMap, robotsTxt, categoryLinks, pc, inflight, result,
                   requests, responses, robotsFetches>>
    /\ UNCHANGED auxVars

\* fetchPage(fullUrl) returns null at its guard: html is null, next candidate
CandidateVisited ==
    /\ pc = "loop"
    /\ idx <= Len(categoryLinks)
    /\ ~BudgetExhausted(visitedUrls, maxPages)
    /\ shouldVisit(FullUrl, baseUrl)
    /\ AlreadyVisited(FullUrl, visitedUrls)
    /\ idx' = idx + 1
    /\ UNCHANGED <<url, baseUrl, maxPages, visitedUrls, templates, entities,
                   siteMap, robotsTxt, categoryLinks, pc, inflight, result,
                   requests, responses, robotsFetches>>
    /\ UNCHANGED auxVars

\* fetchPage(fullUrl) up to its await
CandidateRequest ==
    /\ pc = "loop"
    /\ idx <= Len(categoryLinks)
    /\ ~BudgetExhausted(visitedUrls, maxPages)
    /\ shouldVisit(FullUrl, baseUrl)
    /\ ~AlreadyVisited(FullUrl, visitedUrls)
    /\ visitedUrls' = visitedUrls \cup {FullUrl}
    /\ inflight' = Append(inflight, FullUrl)
    /\ requests' = Append(requests, [url |-> FullUrl, stage |-> "candidate"])
    /\ pc' = "candidate"
    /\ UNCHANGED <<url, baseUrl, maxPages, templates, entities, siteMap,
                   robotsTxt, categoryLinks, idx, result, responses,
                   robotsFetches>>
    /\ UNCHANGED auxVars

\* the candidate request settles: the body of the loop from siteMap.push to
\* the await inside fetchPage(productUrl), or to the end of the iteration
CandidateResponse ==
    /\ pc = "candidate"
    /\ \E outcome \in SiteOutcomes(baseUrl, FullUrl) :
         LET r == FetchPageResult(outcome)
             template == analyzePageTemplate(FullUrl, r.html.doc, baseUrl)
             isCat == IsCategoryType(template.type)
             tm == IF isCat THEN SetIfAbsent(templates, template.type, template)
                   ELSE templates
             productLinks == extractProductLinks(r.html.doc)
             productUrl == resolveUrl(productLinks[1].url, baseUrl)
         IN  IF r.threw
             THEN /\ pc' = "threw"
                  /\ inflight' = <<>>
                  /\ UNCHANGED <<visitedUrls, templates, entities, siteMap,
                                 idx, requests, responses>>
             ELSE IF ~Truthy(r.html)
             THEN /\ responses' = Append(responses,
                        Settled(FullUrl, "candidate", outcome, "none"))
                  /\ inflight' = <<>>
                  /\ idx' = idx + 1
                  /\ pc' = "loop"
                  /\ UNCHANGED <<visitedUrls, templates, entities, siteMap,
                                 requests>>
             ELSE /\ siteMap' = Append(siteMap, FullUrl)
                  /\ responses' = Append(responses,
                        Settled(FullUrl, "candidate", outcome, template.type))
                  /\ entities' =
                        IF isCat
                        THEN Append(entities, [type |-> EntityCategory,
                                               name |-> Link.text,
                                               url |-> FullUrl])
                        ELSE entities
                  /\ templates' = tm
                  /\ IF /\ isCat
                        /\ ShouldSample(productLinks, tm)
                        /\ ~AlreadyVisited(productUrl, visitedUrls)
                     THEN /\ visitedUrls' = visitedUrls \cup {productUrl}
                          /\ inflight' = <<productUrl>>
                          /\ requests' = Append(requests,
                                [url |-> productUrl, stage |-> "product",
                                 links |-> productLinks])
                          /\ pc' = "product"
                          /\ UNCHANGED idx
                     ELSE /\ inflight' = <<>>
                          /\ idx' = idx + 1
                          /\ pc' = "loop"
                          /\ UNCHANGED <<visitedUrls, requests>>
    /\ UNCHANGED <<url, baseUrl, maxPages, robotsTxt, categoryLinks, result,
                   robotsFetches>>
    /\ UNCHANGED auxVars

\* the product request settles: record the product template, next candidate
ProductResponse ==
    /\ pc = "product"
    /\ \E outcome \in SiteOutcomes(baseUrl, inflight[1]) :
         LET r == FetchPageResult(outcome)
             productUrl == inflight[1]
             pdpTemplate == analyzePageTemplate(productUrl, r.html.doc, baseUrl)
         IN  /\ inflight' = <<>>
             /\ IF r.threw
                THEN /\ pc' = "threw"
                     /\ UNCHANGED <<templates, idx, responses>>
                ELSE /\ templates' =
                          IF Truthy(r.html) /\ pdpTemplate.type = PDP
                          THEN [templates EXCEPT ![PDP] = pdpTemplate]
                          ELSE templates
                     /\ responses' = Append(responses,
                          Settled(productUrl, "product", outcome,
                                  IF Truthy(r.html) THEN pdpTemplate.type ELSE "none"))
                     /\ idx' = idx + 1
                     /\ pc' = "loop"
    /\ UNCHANGED <<url, baseUrl, maxPages, visitedUrls, entities, siteMap,
                   robotsTxt, categoryLinks, result, requests, robotsFetches>>
    /\ UNCHANGED auxVars

\* return { domain, analyzedAt, templates, entities, siteMap, robotsTxt }
Return ==
    /\ pc = "return"
    /\ result' = [returned |-> TRUE, domain |-> baseUrl, templates |-> templates,
                  entities |-> entities, siteMap |-> siteMap,
                  robotsTxt |-> robotsTxt]
    /\ pc' = "done"
    /\ UNCHANGED <<url, baseUrl, maxPages, visitedUrls, templates, entities,
                   siteMap, robotsTxt, categoryLinks, idx, inflight, requests,
                   responses, robotsFetches>>
    /\ UNCHANGED auxVars

Next ==
    \/ RobotsRequest
    \/ RobotsResponse
    \/ RootRequest
    \/ RootResponse
    \/ LoopExit
    \/ LoopBreak
    \/ CandidateSkip
    \/ CandidateVisited
    \/ CandidateRequest
    \/ CandidateResponse
    \/ ProductResponse
    \/ Return

Spec == Init /\ [][Next]_vars

TypeOK ==
    /\ pc \in {"start", "robots", "root", "rootWait", "loop", "candidate",
               "product", "return", "done", "threw"}
    /\ Len(inflight) <= 1

(***************************************************************************)
(* Properties                                                              *)
(***************************************************************************)
FailureKinds == {"status", "error"}

\* the URLs of a sequence of records with a url field
UrlsOf(seq) == {seq[i].url : i \in 1..Len(seq)}

\* no value occurs at two positions of the sequence
NoDuplicates(seq) ==
    \A i, j \in 1..Len(seq) : i # j => seq[i] # seq[j]

\* the URLs of the page requests that failed
FailedUrls ==
    {responses[i].url : i \in {k \in 1..Len(responses) : responses[k].kind \in FailureKinds}}

\* the example URLs of the recorded templates
ExampleUrls ==
    UNION {{templates[t].exampleUrls[i] : i \in 1..Len(templates[t].exampleUrls)} :
           t \in PageTemplateType}

\* the homepage request failed
RootFailed == responses # <<>> /\ responses[1].kind \in FailureKinds

\* two candidates already gone through resolve to the same URL u
MetTwice(u) ==
    \E i, j \in 1..Len(categoryLinks) :
        /\ i < j
        /\ j < idx
        /\ resolveUrl(categoryLinks[i].url, baseUrl) = u
        /\ resolveUrl(categoryLinks[j].url, baseUrl) = u

\* C1: in every state of a run and in the returned model, siteMap has at
\* most maxPages entries.
C1_SiteMapWithinBudget ==
    /\ Len(siteMap) <= maxPages
    /\ result.returned => Len(result.siteMap) <= maxPages

\* a run the budget cut short, with as many site map entries as it allows
C1_Witness ==
    /\ pc = "done"
    /\ maxPages >= 2
    /\ Len(result.siteMap) = maxPages - 1
    /\ idx <= Len(categoryLinks)

\* C2: the number of page requests issued in a run (root, candidates and
\* product samples) never exceeds maxPages.  Stated for budgets of at
\* least one page.
C2_PageFetchCeiling ==
    maxPages >= 1 => Len(requests) <= maxPages

\* C3: a run performs at most maxPages + 1 page fetches, failed ones
\* included, and at most one robots.txt fetch.
C3_TotalFetchBound ==
    /\ Len(requests) <= maxPages + 1
    /\ robotsFetches <= 1
    /\ Len(requests) + robotsFetches <= maxPages + 2

\* the bound is met, with a product sample and a failed request in the count
C3_Witness ==
    /\ Len(requests) = maxPages + 1
    /\ robotsFetches = 1
    /\ \E i \in 1..Len(requests) : requests[i].stage = "product"
    /\ FailedUrls # {}

\* C4: no URL string is requested twice by a page fetch, whether the earlier
\* request succeeded or failed; a URL is in the visited set from the moment
\* its request is issued.
C4_NoUrlRequestedTwice ==
    /\ NoDuplicates([i \in 1..Len(requests) |-> requests[i].url])
    /\ UrlsOf(requests) \subseteq visitedUrls
    /\ \A i \in 1..Len(inflight) : pc # "robots" => inflight[i] \in visitedUrls

\* a URL whose request failed came up again as a candidate
C4_Witness ==
    /\ pc = "done"
    /\ \E u \in FailedUrls : MetTwice(u)

\* C5: no URL appears twice in siteMap.
C5_SiteMapNoDuplicates ==
    /\ NoDuplicates(siteMap)
    /\ result.returned => NoDuplicates(result.siteMap)

\* a URL of the site map came up again as a candidate, and a second page
\* was added after it
C5_Witness ==
    /\ Len(siteMap) >= 2
    /\ \E i \in 1..Len(siteMap) : MetTwice(siteMap[i])

\* the positions of responses at which a page of the given stage was
\* classified as type t
ClassifiedAt(t, stages) ==
    {i \in 1..Len(responses) : responses[i].type = t /\ responses[i].stage \in stages}

\* the URL of the first page of the given stages classified as type t
FirstClassified(t, stages) ==
    LET first == CHOOSE i \in ClassifiedAt(t, stages) :
                     \A k \in ClassifiedAt(t, stages) : i <= k
    IN  responses[first].url

\* an entry of the template map, once set, keeps its value
TemplatesFrozen ==
    \A t \in PageTemplateType :
        templates[t] # NoTemplate => templates'[t] = templates[t]

\* where each entry of the template map comes from
TemplateSources ==
    /\ templates[HOME] # NoTemplate =>
          templates[HOME].exampleUrls = <<baseUrl>>
    /\ templates[CATEGORY] # NoTemplate =>
          /\ ClassifiedAt(CATEGORY, {"candidate"}) # {}
          /\ templates[CATEGORY] =
                [type |-> CATEGORY,
                 exampleUrls |-> <<FirstClassified(CATEGORY, {"candidate"})>>]
    /\ templates[PDP] # NoTemplate =>
          /\ ClassifiedAt(PDP, {"product"}) # {}
          /\ templates[PDP] =
                [type |-> PDP,
                 exampleUrls |-> <<FirstClassified(PDP, {"product"})>>]
    /\ \A t \in PageTemplateType \ {HOME, CATEGORY, PDP} : templates[t] = NoTemplate

\* C6 (as claimed): the entry of a type is supplied by the first page
\* classified as that type.  Stated for the runs whose homepage is
\* classified Home.
C6_FirstClassifiedSupplies ==
    (responses # <<>> /\ responses[1].type = HOME) =>
        \A t \in PageTemplateType :
            templates[t] # NoTemplate =>
                /\ ClassifiedAt(t, {"root", "candidate", "product"}) # {}
                /\ templates[t].exampleUrls =
                      <<FirstClassified(t, {"root", "candidate", "product"})>>

\* C6 (amended): the template map holds at most one PageTemplate per type
\* and an entry once set is never overwritten or changed; the Home entry
\* comes from the homepage, the Category entry from the first candidate page
\* classified Category and the ProductDetail entry from the first product
\* sample classified ProductDetail, however many later pages of the same
\* type are visited.
C6_TemplatesSetOnce ==
    /\ [][TemplatesFrozen]_vars
    /\ []TemplateSources

\* two candidate pages were classified Category; the entry is the first one
C6_Witness ==
    /\ Cardinality(ClassifiedAt(CATEGORY, {"candidate"})) >= 2
    /\ templates[CATEGORY].exampleUrls = <<entities[1].url>>
    /\ entities[2].url # entities[1].url

\* C7: no two entities of the entity list have the same URL, in every state
\* of a run and in the returned model.
C7_EntityUrlsUnique ==
    /\ NoDuplicates([i \in 1..Len(entities) |-> entities[i].url])
    /\ result.returned =>
          NoDuplicates([i \in 1..Len(result.entities) |-> result.entities[i].url])

\* the URL of an entity came up again as a candidate, and a second entity
\* was added after it
C7_Witness ==
    /\ Len(entities) >= 2
    /\ MetTwice(entities[1].url)

\* C8: if the fetch of the root URL fails, analyzeSite raises no error,
\* fetches no other page and returns a model without templates, entities or
\* site map entries.
C8_RootFailureGivesEmptyModel ==
    /\ pc # "threw"
    /\ RootFailed =>
          /\ pc \in {"return", "done"}
          /\ Len(requests) = 1
          /\ \A t \in PageTemplateType : templates[t] = NoTemplate
          /\ entities = <<>>
          /\ siteMap = <<>>
          /\ pc = "done" =>
                /\ result.returned
                /\ \A t \in PageTemplateType : result.templates[t] = NoTemplate
                /\ result.entities = <<>>
                /\ result.siteMap = <<>>

\* a run whose homepage request was rejected has returned
C8_Witness ==
    /\ pc = "done"
    /\ RootFailed
    /\ responses[1].kind = "error"

\* a candidate request fails: the loop is at the next candidate, and the
\* accumulated model is as it was
CandidateFailureStep ==
    (/\ pc = "candidate"
     /\ Len(responses') = Len(responses) + 1
     /\ responses'[Len(responses')].kind \in FailureKinds)
        => /\ pc' = "loop"
           /\ idx' = idx + 1
           /\ UNCHANGED <<siteMap, entities, templates>>

\* C9: a fetch failure on a candidate does not stop the loop, which goes on
\* to the next candidate, and the failed URL is neither in siteMap nor the
\* URL of an entity nor the example of a template.
C9_CandidateFailureIsolated ==
    /\ [][CandidateFailureStep]_vars
    /\ [](\A u \in FailedUrls :
             /\ \A i \in 1..Len(siteMap) : siteMap[i] # u
             /\ u \notin UrlsOf(entities)
             /\ u \notin ExampleUrls)

\* a candidate failed and a later candidate was fetched and added
C9_Witness ==
    \E i, j \in 1..Len(responses) :
        /\ i < j
        /\ responses[i].stage = "candidate"
        /\ responses[i].kind \in FailureKinds
        /\ responses[j].stage = "candidate"
        /\ responses[j].kind = "ok"
        /\ \E k \in 1..Len(siteMap) : siteMap[k] = responses[j].url

\* C10: whenever the root fetch succeeds, the Home entry of the template
\* map is a template of type Home whose example URL is the root URL.
C10_RootRecordedAsHome ==
    (responses # <<>> /\ responses[1].kind = "ok")
        => templates[HOME] = [type |-> HOME, exampleUrls |-> <<baseUrl>>]

\* C11: every URL whose page was fetched successfully during the run, the
\* root page and sampled product pages included, is an element of the
\* returned siteMap.
C11_SiteMapListsFetchedPages ==
    pc = "done" =>
        \A i \in 1..Len(responses) :
            responses[i].kind = "ok" =>
                \E k \in 1..Len(result.siteMap) : result.siteMap[k] = responses[i].url

\* the states in which analyzeSite is suspended at a fetch
WaitingStates == {"robots", "rootWait", "candidate", "product"}

\* C12: execution is strictly sequential: at most one request is in flight,
\* analyzeSite is suspended exactly while one is, and every page request
\* issued before the one in flight has settled.
C12_StrictlySequential ==
    /\ Len(inflight) <= 1
    /\ (inflight # <<>>) <=> (pc \in WaitingStates)
    /\ Len(requests) - Len(responses) = (IF pc \in WaitingStates \ {"robots"} THEN 1 ELSE 0)

\* the third page request of a run is in flight, the first two have settled
C12_Witness ==
    /\ pc = "product"
    /\ Len(inflight) = 1
    /\ Len(requests) = 3
    /\ Len(responses) = 2

(***************************************************************************)
(* SiteAuditServer: the tool handlers and the cache (src/src/index.ts)     *)
(***************************************************************************)
DefaultMaxPages == 50

\* args.maxPages: absent, or a number
MaxPagesOmitted == [given |-> FALSE, value |-> 0]
MaxPagesGiven(n) == [given |-> TRUE, value |-> n]
MaxPagesArgs == {MaxPagesOmitted, MaxPagesGiven(0), MaxPagesGiven(MaxPagesBound)}

\* (args.maxPages as number) || 50
MaxPagesOrDefault(arg) ==
    IF arg.given /\ arg.value # 0 THEN arg.value ELSE DefaultMaxPages

\* args.format: absent (""), or a string
Formats == {"", "python", "javascript", "xml"}
SupportedFormats == {"json", "python", "javascript"}

\* (args.format as string) || 'json'
FormatOrDefault(f) == IF f = "" THEN "json" ELSE f

\* !url
Falsy(u) == Str(u) = <<>>

UrlRequired == "url is required"
NotAnalyzed == "Site not analyzed yet. Run analyze_site first."
InvalidFormat == "Invalid format. Use json, python, or javascript"

\* what a crawl can return: the accumulated templates and entities
HomeTemplates(base) ==
    [t \in PageTemplateType |->
        IF t = HOME THEN [type |-> HOME, exampleUrls |-> <<base>>] ELSE NoTemplate]

CrawlEmpty(base) ==
    [templates |-> [t \in PageTemplateType |-> NoTemplate], entities |-> <<>>,
     siteMap |-> <<>>, robotsTxt |-> "undefined"]

CrawlWithCategory(base) ==
    LET a == Url(BaseOrigin, <<"/", "a">>)
    IN  [templates |-> [HomeTemplates(base) EXCEPT
                           ![CATEGORY] = [type |-> CATEGORY, exampleUrls |-> <<a>>]],
         entities |-> <<[type |-> EntityCategory, name |-> txtShop, url |-> a]>>,
         siteMap |-> <<a>>, robotsTxt |-> "undefined"]

CrawlResults(base) == {CrawlEmpty(base), CrawlWithCategory(base)}

\* the SiteStructure analyzeSite returns
SiteStructure(base, now, crawl) ==
    [cached |-> TRUE, domain |-> base, analyzedAt |-> now,
     templates |-> crawl.templates, entities |-> crawl.entities,
     siteMap |-> crawl.siteMap, robotsTxt |-> crawl.robotsTxt]

\* cacheSiteStructure with the key tested first: the first analysis stays
cacheSiteStructureIfAbsent(cache, u, structure) ==
    IF cache[u] = NoModel THEN [cache EXCEPT ![u] = structure] ELSE cache

\* cacheSiteStructure
cacheSiteStructure(cache, u, structure) == [cache EXCEPT ![u] = structure]

\* getCachedSiteStructure with the trailing slash of the key removed
getCachedSiteStructureNormalized(cache, u) ==
    cache[Url(u.origin, StripTrailingSlash(u.path))]

\* getCachedSiteStructure
getCachedSiteStructure(cache, u) == cache[u]

\* Map.has
HasTemplate(structure, t) == structure.templates[t] # NoTemplate

\* ScenarioGenerator.generateScenarios: the names of the scenarios
generateScenarios(structure) ==
    <<"Homepage Verification">>
    \o (IF Len(structure.entities) > 0 THEN <<"Category Browsing">> ELSE <<>>)
    \o (IF HasTemplate(structure, PDP) THEN <<"Product Detail Verification">> ELSE <<>>)
    \o (IF HasTemplate(structure, SEARCH) THEN <<"Search Functionality">> ELSE <<>>)
    \o <<"Full Site Crawl">>

\* generateScenarios taking its categories with entities.splice(0, 5)
StructureAfterScenariosSpliced(structure) ==
    [structure EXCEPT !.entities = SubSeq(@, 6, Len(@))]

\* the SiteStructure object once generateScenarios has run on it: the
\* generator reads it (filter, slice, get, keys) and writes only its own arrays
StructureAfterScenarios(structure) == structure

\* the call that arrives next
Arrives(c) == c = nextCall /\ c \in CallIds

Failed(tool, u, error, at) ==
    [state |-> "failed", tool |-> tool, url |-> u, error |-> error, at |-> at]

\* one Set for every crawler (a static field)
NewSetShared(c) == 1

\* private visitedUrls: Set<string> = new Set(): the object made for the
\* crawler of call c, one no earlier `new` returned
NewSet(c) == c

\* handleAnalyzeSite up to await crawler.analyzeSite()
AnalyzeStart(c) ==
    /\ Arrives(c)
    /\ \E u \in CallUrls, arg \in MaxPagesArgs :
         LET max == MaxPagesOrDefault(arg)
         IN  calls' = [calls EXCEPT ![c] =
                 IF Falsy(u)
                 THEN Failed("analyze_site", u, UrlRequired, Len(completions))
                 ELSE [state |-> "running", tool |-> "analyze_site", url |-> u,
                       maxPagesArg |-> arg,
                       crawler |-> [baseUrl |-> Url(u.origin, StripTrailingSlash(u.path)),
                                    maxPages |-> max,
                                    visitedUrls |-> NewSet(c)],
                       visitedAtStart |-> visitedSets[NewSet(c)]]]
    /\ nextCall' = nextCall + 1
    /\ UNCHANGED <<siteCache, clock, completions, visitedSets>>
    /\ UNCHANGED <<crawlerVars, functionVars>>

\* analyzeSite() runs and resolves (fetchPage(baseUrl) gives null when the
\* visited set holds baseUrl already, and the model is then empty);
\* handleAnalyzeSite caches the structure and answers
AnalyzeReturn(c) ==
    /\ calls[c].state = "running"
    /\ \E crawl \in CrawlResults(calls[c].crawler.baseUrl) :
         LET this == calls[c].crawler
             rootFetched == this.baseUrl \notin visitedSets[this.visitedUrls]
             structure == SiteStructure(this.baseUrl, clock, crawl)
         IN  /\ ~rootFetched => crawl = CrawlEmpty(this.baseUrl)
             /\ visitedSets' =
                    IF rootFetched
                    THEN [visitedSets EXCEPT ![this.visitedUrls] =
                             @ \cup {this.baseUrl}
                               \cup {crawl.entities[i].url : i \in 1..Len(crawl.entities)}]
                    ELSE visitedSets
             /\ siteCache' = cacheSiteStructure(siteCache, calls[c].url, structure)
             /\ calls' = [calls EXCEPT ![c] =
                    [state |-> "done", tool |-> "analyze_site", url |-> calls[c].url,
                     maxPagesArg |-> calls[c].maxPagesArg,
                     crawler |-> calls[c].crawler, structure |-> structure,
                     visitedAtStart |-> calls[c].visitedAtStart,
                     rootFetched |-> rootFetched]]
             /\ completions' = Append(completions,
                    [call |-> c, url |-> calls[c].url, structure |-> structure])
    /\ clock' = clock + 1
    /\ UNCHANGED nextCall
    /\ UNCHANGED <<crawlerVars, functionVars>>

\* the part the three read handlers share: the argument test and the lookup
Refused(u) == Falsy(u) \/ getCachedSiteStructure(siteCache, u) = NoModel

Refusal(tool, u) ==
    IF Falsy(u) THEN Failed(tool, u, UrlRequired, Len(completions))
    ELSE Failed(tool, u, NotAnalyzed, Len(completions))

Done(tool, u, structure, body) ==
    [state |-> "done", tool |-> tool, url |-> u, read |-> structure,
     at |-> Len(completions), body |-> body]

\* handleGetCategories
GetCategories(c) ==
    /\ Arrives(c)
    /\ \E u \in CallUrls :
         LET siteStructure == getCachedSiteStructure(siteCache, u)
         IN  calls' = [calls EXCEPT ![c] =
                 IF Refused(u) THEN Refusal("get_site_categories", u)
                 ELSE Done("get_site_categories", u, siteStructure,
                          [domain |-> siteStructure.domain,
                           categories |-> SelectSeq(siteStructure.entities,
                               LAMBDA e : e.type = "category" \/ e.type = "subcategory")])]
    /\ nextCall' = nextCall + 1
    /\ UNCHANGED <<siteCache, clock, completions, visitedSets>>
    /\ UNCHANGED <<crawlerVars, functionVars>>

\* handleGetTemplates
GetTemplates(c) ==
    /\ Arrives(c)
    /\ \E u \in CallUrls :
         LET siteStructure == getCachedSiteStructure(siteCache, u)
         IN  calls' = [calls EXCEPT ![c] =
                 IF Refused(u) THEN Refusal("get_page_templates", u)
                 ELSE Done("get_page_templates", u, siteStructure,
                          [domain |-> siteStructure.domain,
                           templates |-> {t \in PageTemplateType :
                                             HasTemplate(siteStructure, t)}])]
    /\ nextCall' = nextCall + 1
    /\ UNCHANGED <<siteCache, clock, completions, visitedSets>>
    /\ UNCHANGED <<crawlerVars, functionVars>>

\* handleGenerateScenarios
GenerateScenarios(c) ==
    /\ Arrives(c)
    /\ \E u \in CallUrls, f \in Formats :
         LET format == FormatOrDefault(f)
             siteStructure == getCachedSiteStructure(siteCache, u)
         IN  /\ calls' = [calls EXCEPT ![c] =
                    IF Refused(u) THEN Refusal("generate_crawl_scenarios", u)
                    ELSE IF format \in SupportedFormats
                    THEN Done("generate_crawl_scenarios", u, siteStructure,
                             [format |-> format,
                              scenarios |-> generateScenarios(siteStructure)])
                    ELSE Failed("generate_crawl_scenarios", u, InvalidFormat,
                                Len(completions)) @@ [format |-> format]]
             /\ siteCache' =
                    IF Refused(u) THEN siteCache
                    ELSE [siteCache EXCEPT ![u] = StructureAfterScenarios(siteStructure)]
    /\ nextCall' = nextCall + 1
    /\ UNCHANGED <<clock, completions, visitedSets>>
    /\ UNCHANGED <<crawlerVars, functionVars>>

\* the crawler variables while the server is looked at
CrawlerParked ==
    /\ url = Url(BaseOrigin, <<>>)
    /\ baseUrl = Url(BaseOrigin, <<>>)
    /\ maxPages = 0
    /\ visitedUrls = {}
    /\ templates = [t \in PageTemplateType |-> NoTemplate]
    /\ entities = <<>>
    /\ siteMap = <<>>
    /\ robotsTxt = "undefined"
    /\ categoryLinks = <<>>
    /\ idx = 1
    /\ pc = "start"
    /\ inflight = <<>>
    /\ result = NoResult
    /\ requests = <<>>
    /\ responses = <<>>
    /\ robotsFetches = 0

ServerInit ==
    /\ CrawlerParked
    /\ ServerIdle
    /\ FunctionsIdle

ServerNext ==
    \E c \in CallIds :
        \/ AnalyzeStart(c)
        \/ AnalyzeReturn(c)
        \/ GetCategories(c)
        \/ GetTemplates(c)
        \/ GenerateScenarios(c)

ServerSpec == ServerInit /\ [][ServerNext]_vars

(***************************************************************************)
(* Properties of the server and its cache                                  *)
(***************************************************************************)
ReadTools == {"get_site_categories", "get_page_templates", "generate_crawl_scenarios"}

\* the positions, among the first n completions, of the analyses of u
CompletedFor(u, n) == {i \in 1..n : completions[i].url = u}

Max(S) == CHOOSE m \in S : \A k \in S : k <= m

\* the model the analysis of u that completed last among the first n returned
LastModel(u, n) ==
    IF CompletedFor(u, n) = {} THEN NoModel
    ELSE completions[Max(CompletedFor(u, n))].structure

Answered(c) == calls[c].state \in {"done", "failed"} /\ calls[c].tool \in ReadTools

CacheHoldsLastModel ==
    \A u \in CallUrls : siteCache[u] = LastModel(u, Len(completions))

ReadsSeeLastModel ==
    \A c \in CallIds :
        (Answered(c) /\ calls[c].state = "done") =>
            /\ calls[c].read = LastModel(calls[c].url, calls[c].at)
            /\ calls[c].read # NoModel

EntriesStay ==
    \A u \in CallUrls : siteCache[u] # NoModel => siteCache'[u] # NoModel

\* C13: the cache entry of a URL string is the model of the analyze_site call
\* for that string that completed last, whatever the order the calls started
\* in; the read tools answer from exactly that model; an entry, once there,
\* is never removed.
C13_LastAnalysisWins ==
    /\ [](CacheHoldsLastModel /\ ReadsSeeLastModel)
    /\ [][EntriesStay]_vars

\* two overlapping analyses of one URL string, the one that started first
\* completing last, and a read after both
C13_Witness ==
    /\ Len(completions) = 2
    /\ completions[1].call = 2
    /\ completions[2].call = 1
    /\ completions[1].url = completions[2].url
    /\ completions[1].structure # completions[2].structure
    /\ calls[3].state = "done"
    /\ calls[3].tool \in ReadTools
    /\ calls[3].url = completions[2].url
    /\ calls[3].read = completions[2].structure

NotAnalyzedAt(c) == CompletedFor(calls[c].url, calls[c].at) = {}

\* C14 as stated: a read tool called with a URL string no analysis has
\* completed for fails with 'Site not analyzed yet. Run analyze_site first.',
\* and succeeds once an analysis of that string has completed.
C14_ReadsFailOnlyBeforeAnalysis ==
    \A c \in CallIds :
        Answered(c) =>
            IF NotAnalyzedAt(c)
            THEN calls[c].state = "failed" /\ calls[c].error = NotAnalyzed
            ELSE calls[c].state = "done"

ReadOutcome ==
    \A c \in CallIds :
        Answered(c) =>
            IF Falsy(calls[c].url)
            THEN calls[c].state = "failed" /\ calls[c].error = UrlRequired
            ELSE IF NotAnalyzedAt(c)
            THEN calls[c].state = "failed" /\ calls[c].error = NotAnalyzed
            ELSE IF calls[c].tool # "generate_crawl_scenarios"
            THEN calls[c].state = "done"
            ELSE \/ /\ calls[c].state = "done"
                    /\ calls[c].body.format \in SupportedFormats
                 \/ /\ calls[c].state = "failed"
                    /\ calls[c].error = InvalidFormat
                    /\ calls[c].format \notin SupportedFormats

ReadAnswers(c) == calls[c].state = "idle" /\ calls'[c] # calls[c]

ReadsLeaveCache ==
    (\E c \in CallIds : ReadAnswers(c) /\ calls'[c].tool \in ReadTools)
        => siteCache' = siteCache

\* C14 (amended): a read tool called with a non-empty URL string no analysis
\* has completed for fails with 'Site not analyzed yet. Run analyze_site
\* first.'; an empty URL string fails with 'url is required'; once an analysis
\* of the string has completed, get_site_categories and get_page_templates
\* succeed, and generate_crawl_scenarios succeeds with a format of json,
\* python or javascript (json when omitted) and fails with 'Invalid format.
\* Use json, python, or javascript' with any other; no read changes the cache.
C14_ReadsNeedCompletedAnalysis ==
    /\ []ReadOutcome
    /\ [][ReadsLeaveCache]_vars

\* one URL string read before its analysis (refused) and after it (answered)
C14_Witness ==
    /\ calls[1].state = "failed"
    /\ calls[1].tool \in ReadTools
    /\ calls[1].error = NotAnalyzed
    /\ calls[2].state = "done"
    /\ calls[2].tool = "analyze_site"
    /\ calls[2].url = calls[1].url
    /\ calls[3].state = "done"
    /\ calls[3].tool = "generate_crawl_scenarios"
    /\ calls[3].url = calls[1].url
    /\ siteCache[calls[1].url] = calls[2].structure

\* C15: analyze_site crawls with the caller's maxPages whenever one is
\* supplied, and with 50 only when it is omitted.
C15_CallerMaxPagesUsed ==
    \A c \in CallIds :
        (calls[c].state \in {"running", "done"} /\ calls[c].tool = "analyze_site") =>
            calls[c].crawler.maxPages =
                (IF calls[c].maxPagesArg.given
                 THEN calls[c].maxPagesArg.value ELSE DefaultMaxPages)

(***************************************************************************)
(* The page classifier on its own: analyzePageTemplate applied to one page *)
(***************************************************************************)
PriceCounts == {0, 1, 9, 10}
CartElementCounts == {0, 3, 4}
ProductLinkCounts == {0, 2, 3, 5, 6}

ProductLinks(n) == [i \in 1..n |-> prodP1]

ClassifyDocs ==
    {Doc(atc, title, image, prices, sku, filt, FALSE, carts, sres, ProductLinks(n)) :
        atc \in BOOLEAN, title \in BOOLEAN, image \in BOOLEAN, prices \in PriceCounts,
        sku \in BOOLEAN, filt \in BOOLEAN, carts \in CartElementCounts,
        sres \in BOOLEAN, n \in ProductLinkCounts}

ClassifyBase == Url(BaseOrigin, <<>>)

ClassifyUrls ==
    {ClassifyBase,
     Url(BaseOrigin, <<"/">>),
     Url(BaseOrigin, <<"/", "a">>),
     Url(BaseOrigin, <<"/", "c", "a", "r", "t">>),
     Url(BaseOrigin, <<"/", "c", "a", "r", "t", "?", "q", "=">>),
     Url(BaseOrigin, <<"/", "s", "e", "a", "r", "c", "h">>)}

ClassifyInputs ==
    {[fn |-> "analyzePageTemplate", url |-> u, doc |-> d] :
        u \in ClassifyUrls, d \in ClassifyDocs}

ClassifyInit ==
    /\ CrawlerParked
    /\ ServerIdle
    /\ hIn \in ClassifyInputs
    /\ hOut = NoOutput

\* analyzePageTemplate(url, html)
Classify ==
    /\ hIn.fn = "analyzePageTemplate"
    /\ hOut = NoOutput
    /\ hOut' = [fn |-> "analyzePageTemplate",
                template |-> analyzePageTemplate(hIn.url, hIn.doc, ClassifyBase)]
    /\ UNCHANGED hIn
    /\ UNCHANGED <<crawlerVars, serverVars>>

ClassifyNext == Classify

ClassifySpec == ClassifyInit /\ [][ClassifyNext]_vars

Classified == hOut # NoOutput /\ hOut.fn = "analyzePageTemplate"

AtRoot(u) ==
    Str(u) = Str(ClassifyBase) \/ Str(u) = Str(ClassifyBase) \o <<"/">>

\* the rules of the chain, in order, as they apply to the page classified
RuleMatches ==
    <<isProductDetailPage(hIn.doc),
      isCategoryPage(hIn.doc),
      AtRoot(hIn.url),
      isCartPage(hIn.doc, hIn.url),
      isSearchPage(hIn.doc, hIn.url),
      TRUE>>

RuleTypes == <<PDP, CATEGORY, HOME, CART, SEARCH, UNKNOWN>>

FirstMatch == CHOOSE i \in 1..6 : RuleMatches[i] /\ \A k \in 1..(i - 1) : ~RuleMatches[k]

\* C17: the type of a page is the outcome of the first rule that matches in
\* the order ProductDetail, Category, Home, Cart, Search, Unknown: always one
\* of these six, Unknown when none of the five rules matches, and Home for a
\* page at the root URL that is neither ProductDetail nor Category.
C17_FirstMatchingRuleWins ==
    Classified =>
        /\ hOut.template.type = RuleTypes[FirstMatch]
        /\ hOut.template.type \in {PDP, CATEGORY, HOME, CART, SEARCH, UNKNOWN}
        /\ (\A i \in 1..5 : ~RuleMatches[i]) => hOut.template.type = UNKNOWN
        /\ (AtRoot(hIn.url) /\ ~RuleMatches[1] /\ ~RuleMatches[2])
               => hOut.template.type = HOME

\* a page matching the Category, Home, Cart and Search rules at once
C17_Witness ==
    /\ Classified
    /\ ~RuleMatches[1]
    /\ \A i \in 2..5 : RuleMatches[i]
    /\ hOut.template.type = CATEGORY

Count(b) == IF b THEN 1 ELSE 0

\* the number of the five ProductDetail indicators the page shows
IndicatorsHeld(d) ==
    Count(d.addToCart) + Count(d.productTitle) + Count(d.productImage)
    + Count(d.priceCount \in 1..9) + Count(d.sku)

\* C18: a page is classified ProductDetail exactly when at least 2 of the 5
\* indicators hold, a price indicator being between 1 and 9 price elements.
C18_TwoOfFiveIndicators ==
    Classified =>
        (hOut.template.type = PDP <=> IndicatorsHeld(hIn.doc) >= 2)

\* exactly two indicators, one of them a single price element
C18_Witness ==
    /\ Classified
    /\ IndicatorsHeld(hIn.doc) = 2
    /\ hIn.doc.priceCount = 1
    /\ hOut.template.type = PDP

(***************************************************************************)
(* The category link extractor and its filter on their own                 *)
(***************************************************************************)
MaxAnchors == 3

hrefElectronics ==
    Url(Relative, <<"/", "e", "l", "e", "c", "t", "r", "o", "n", "i", "c", "s">>)
hrefAbout == Url(Relative, <<"/", "a", "b", "o", "u", "t">>)
hrefCFaq == Url(Relative, <<"/", "c", "/", "f", "a", "q">>)
hrefE == Url(Relative, <<"/", "e">>)
hrefXY == Url(Relative, <<"/", "x", "/", "y">>)
hrefFragment == Url(Relative, <<"#", "t">>)
hrefMailto == Url(Relative, <<"m", "a", "i", "l", "t", "o", ":", "a">>)
hrefJpg == Url(Relative, <<"/", "a", ".", "J", "P", "G">>)
hrefUpper == Url(Relative, <<"/", "E">>)

txtElectronics == <<"E", "l", "e", "c", "t", "r", "o", "n", "i", "c", "s">>
txtAboutUs == <<"A", "b", "o", "u", "t", " ", "U", "s">>
txtBlank == <<" ", " ">>
txtPadded == <<" ", "S", "a", "l", "e", "\n">>
txtSlashFaq == <<"A", "/", "F", "A", "Q">>

eElectronics == Anchor(hrefElectronics, txtElectronics, {1}, FALSE, FALSE)
eLogin == Anchor(hrefLogin, txtSignIn, {1}, FALSE, FALSE)
eAbout == Anchor(hrefAbout, txtAboutUs, {1}, FALSE, FALSE)
eBlank == Anchor(hrefB, txtBlank, {1}, FALSE, FALSE)
ePadded == Anchor(hrefB, txtPadded, {2}, FALSE, FALSE)
eBoth == Anchor(hrefCFaq, txtShop, {1}, FALSE, FALSE)
eTextExcluded == Anchor(hrefE, txtSlashFaq, {1}, FALSE, FALSE)
eKeyword == Anchor(hrefXY, txtMen, {NavSelectorCount}, FALSE, FALSE)
eNoHref == Anchor(NoHref, txtShop, {1}, FALSE, FALSE)
eTwice == Anchor(hrefElectronics, txtShop, {1, 2}, FALSE, FALSE)

ExtractAnchors ==
    {eElectronics, eLogin, eAbout, eBlank, ePadded, eBoth, eTextExcluded,
     eKeyword, eNoHref, eTwice}

ExampleNav == <<eElectronics, eLogin, eAbout>>

ShortNavs == UNION {[1..n -> ExtractAnchors] : n \in 0..MaxAnchors}

LongNavs ==
    {pre \o LongNav(n) :
        pre \in {<<>>, <<eLogin>>, <<LongAnchor(3)>>},
        n \in (CategoryLinkLimit - 1)..(CategoryLinkLimit + 2)}

ExtractInputs ==
    {[fn |-> "extractCategoryLinks", anchors |-> as] : as \in ShortNavs \cup LongNavs}

FilterHrefs ==
    {a.href : a \in ExtractAnchors \ {eNoHref}}
        \cup {hrefFragment, hrefMailto, hrefJpg, hrefUpper}

FilterTexts == ({Trim(a.text) : a \in ExtractAnchors} \ {<<>>}) \cup {txtItem}

FilterInputs ==
    {[fn |-> "looksLikeCategoryLink", href |-> h, text |-> t] :
        h \in FilterHrefs, t \in FilterTexts}

ExtractInit ==
    /\ CrawlerParked
    /\ ServerIdle
    /\ hIn \in ExtractInputs \cup FilterInputs
    /\ hOut = NoOutput

\* extractCategoryLinks($)
Extract ==
    /\ hIn.fn = "extractCategoryLinks"
    /\ hOut = NoOutput
    /\ hOut' = [fn |-> "extractCategoryLinks",
                links |-> extractCategoryLinks([BlankDoc EXCEPT !.anchors = hIn.anchors])]
    /\ UNCHANGED hIn
    /\ UNCHANGED <<crawlerVars, serverVars>>

\* looksLikeCategoryLink(href, text)
Filter ==
    /\ hIn.fn = "looksLikeCategoryLink"
    /\ hOut = NoOutput
    /\ hOut' = [fn |-> "looksLikeCategoryLink",
                accept |-> looksLikeCategoryLink(hIn.href, hIn.text)]
    /\ UNCHANGED hIn
    /\ UNCHANGED <<crawlerVars, serverVars>>

ExtractNext == Extract \/ Filter

ExtractSpec == ExtractInit /\ [][ExtractNext]_vars

Extracted == hOut # NoOutput /\ hOut.fn = "extractCategoryLinks"

Filtered == hOut # NoOutput /\ hOut.fn = "looksLikeCategoryLink"

\* the anchor has an href and a text and passes the category-link filter
Qualifies(a) ==
    /\ TruthyHref(a.href)
    /\ Trim(a.text) # <<>>
    /\ looksLikeCategoryLink(a.href, Trim(a.text))

\* when anchor i is visited for selector sel: selectors in list order, the
\* anchors of a selector in document order
VisitTime(sel, i) == sel * (Len(hIn.anchors) + 1) + i

\* the times a qualifying anchor with href h is visited
QualifyingVisits(h) ==
    UNION {{VisitTime(sel, i) : i \in {k \in 1..Len(hIn.anchors) :
                                          /\ sel \in hIn.anchors[k].nav
                                          /\ hIn.anchors[k].href = h
                                          /\ Qualifies(hIn.anchors[k])}} :
           sel \in 1..NavSelectorCount}

Least(S) == CHOOSE m \in S : \A k \in S : m <= k

FirstSeen(h) == Least(QualifyingVisits(h))

QualifyingHrefs ==
    {hIn.anchors[k].href : k \in {i \in 1..Len(hIn.anchors) :
                                     QualifyingVisits(hIn.anchors[i].href) # {}}}

\* C19: the extractor returns at most 20 candidates, no two with the same
\* href, each the href and trimmed text of a visited anchor that has a
\* non-empty href and text and passes the filter, in the order the hrefs are
\* first seen over the selector list; an href left out was first seen after
\* the twenty returned.
C19_ExtractorContract ==
    Extracted =>
        LET links == hOut.links
        IN  /\ Len(links) <= 20
            /\ \A j, k \in 1..Len(links) : j # k => links[j].url # links[k].url
            /\ \A j \in 1..Len(links) :
                   /\ QualifyingVisits(links[j].url) # {}
                   /\ \E i \in 1..Len(hIn.anchors), sel \in 1..NavSelectorCount :
                          /\ VisitTime(sel, i) = FirstSeen(links[j].url)
                          /\ links[j].text = Trim(hIn.anchors[i].text)
            /\ \A j, k \in 1..Len(links) :
                   j < k => FirstSeen(links[j].url) < FirstSeen(links[k].url)
            /\ \A h \in QualifyingHrefs :
                   (\A j \in 1..Len(links) : links[j].url # h) =>
                       /\ Len(links) = 20
                       /\ FirstSeen(links[20].url) < FirstSeen(h)

\* more than twenty qualifying hrefs, one of them met twice
C19_Witness ==
    /\ Extracted
    /\ Cardinality(QualifyingHrefs) > 20
    /\ Len(hIn.anchors) > Cardinality(QualifyingHrefs)
    /\ Len(hOut.links) = 20

ConventionPath(h) == \E w \in IncludeWords : Contains(Lower(Str(h)), <<"/">> \o w)

SingleSegment(h) == MatchesSimplePath(Str(h))

CategoryKeyword(t) == \E w \in categoryWords : Contains(Lower(t), w)

Excluded(h, t) == MatchesExclude(Str(h)) \/ MatchesExclude(t)

\* C20: the filter rejects a link whose href or text matches an exclusion
\* pattern, whatever else matches; any other link it accepts exactly when the
\* href matches a category-path convention or the single-segment shape, or
\* the text contains a category keyword. From the navigation /electronics
\* 'Electronics', /login 'Sign In', /about 'About Us' the extractor returns
\* the one candidate /electronics.
C20_ExclusionBeforeInclusion ==
    /\ Filtered =>
           (hOut.accept <=>
               /\ ~Excluded(hIn.href, hIn.text)
               /\ \/ ConventionPath(hIn.href)
                  \/ SingleSegment(hIn.href)
                  \/ CategoryKeyword(hIn.text))
    /\ (Extracted /\ hIn.anchors = ExampleNav) =>
           hOut.links = <<[text |-> txtElectronics, url |-> hrefElectronics]>>

\* a link matching an exclusion pattern and an include pattern, rejected
C20_Witness ==
    /\ Filtered
    /\ Excluded(hIn.href, hIn.text)
    /\ ConventionPath(hIn.href)
    /\ CategoryKeyword(hIn.text)
    /\ ~hOut.accept

(***************************************************************************)
(* extractUrlPattern (src/src/crawler.ts:322-334), on URL strings          *)
(*                                                                         *)
(* new URL(s) follows the URL Standard for the strings of the universe: a  *)
(* string with no scheme is rejected; an http(s) URL has the path after    *)
(* its host as pathname ("/" when there is none); a URL of another scheme  *)
(* whose remainder does not start with "/" has that remainder as an opaque *)
(* pathname.  The strings carry no dot segments and no characters the      *)
(* parser would percent-encode.                                            *)
(***************************************************************************)
DigitChars == {"0", "1", "2", "3", "4", "5", "6", "7", "8", "9"}

\* [a-f0-9-]
HexDashChars == DigitChars \cup {"a", "b", "c", "d", "e", "f", "-"}

AlphaChars == SlugChars \ (DigitChars \cup {"-"})

SchemeChars == SlugChars \cup {"+", "."}

\* {20,}
UuidMinLength == 20

\* the position of the ":" that ends the scheme of s, 0 when s has no scheme
SchemeEnd(s) ==
    LET ends == {k \in 2..Len(s) :
                    /\ s[k] = ":"
                    /\ s[1] \in AlphaChars
                    /\ \A i \in 1..(k - 1) : s[i] \in SchemeChars}
    IN  IF ends = {} THEN 0 ELSE CHOOSE k \in ends : \A m \in ends : k <= m

\* the length of the longest prefix of s made of characters of set
RECURSIVE RunLength(_, _)
RunLength(s, set) ==
    IF s # <<>> /\ Head(s) \in set THEN 1 + RunLength(Tail(s), set) ELSE 0

\* s without its first n characters
Drop(s, n) == SubSeq(s, n + 1, Len(s))

\* s up to the first character of stops
UpTo(s, stops) == SubSeq(s, 1, RunLength(s, {s[i] : i \in 1..Len(s)} \ stops))

SpecialSchemes == {<<"h", "t", "t", "p">>, <<"h", "t", "t", "p", "s">>}

\* new URL(s): [ok, pathname]
ParseUrl(s) ==
    LET k == SchemeEnd(s)
        scheme == SubSeq(s, 1, k - 1)
        rest == Drop(s, k)
        afterSlashes == Drop(rest, RunLength(rest, {"/", "\\"}))
        host == UpTo(afterSlashes, {"/", "?", "#"})
        afterHost == Drop(afterSlashes, Len(host))
        authority == UpTo(Drop(rest, 2), {"/", "?", "#"})
    IN  IF k = 0 THEN [ok |-> FALSE, pathname |-> <<>>]
        ELSE IF scheme \in SpecialSchemes
        THEN IF host = <<>> \/ Contains(host, <<"[">>)
             THEN [ok |-> FALSE, pathname |-> <<>>]
             ELSE [ok |-> TRUE,
                   pathname |-> IF UpTo(afterHost, {"?", "#"}) = <<>> THEN <<"/">>
                                ELSE UpTo(afterHost, {"?", "#"})]
        ELSE IF StartsWith(rest, <<"/", "/">>)
        THEN [ok |-> TRUE,
              pathname |-> UpTo(Drop(rest, 2 + Len(authority)), {"?", "#"})]
        ELSE [ok |-> TRUE, pathname |-> UpTo(rest, {"?", "#"})]

\* path.replace(/\/\d+/g, '/:id')
RECURSIVE ReplaceIds(_)
ReplaceIds(s) ==
    IF s = <<>> THEN <<>>
    ELSE IF Head(s) = "/" /\ RunLength(Tail(s), DigitChars) >= 1
    THEN <<"/", ":", "i", "d">>
         \o ReplaceIds(Drop(Tail(s), RunLength(Tail(s), DigitChars)))
    ELSE <<Head(s)>> \o ReplaceIds(Tail(s))

\* .replace(/\/[a-f0-9-]{20,}/g, '/:uuid')
RECURSIVE ReplaceUuids(_)
ReplaceUuids(s) ==
    IF s = <<>> THEN <<>>
    ELSE IF Head(s) = "/" /\ RunLength(Tail(s), HexDashChars) >= UuidMinLength
    THEN <<"/", ":", "u", "u", "i", "d">>
         \o ReplaceUuids(Drop(Tail(s), RunLength(Tail(s), HexDashChars)))
    ELSE <<Head(s)>> \o ReplaceUuids(Tail(s))

\* .replace(/\?.*$/, '')
DropQuery(s) == UpTo(s, {"?"})

\* extractUrlPattern with an empty pattern for a string new URL rejects
extractUrlPatternEmptyOnError(s) ==
    IF ParseUrl(s).ok
    THEN DropQuery(ReplaceUuids(ReplaceIds(ParseUrl(s).pathname)))
    ELSE <<>>

\* extractUrlPattern
extractUrlPattern(s) ==
    IF ParseUrl(s).ok
    THEN DropQuery(ReplaceUuids(ReplaceIds(ParseUrl(s).pathname)))
    ELSE s

(***************************************************************************)
(* The generalizer on its own                                              *)
(***************************************************************************)
MaxSegments == 2

segProduct == <<"p", "r", "o", "d", "u", "c", "t">>
segP == <<"p">>
segDigits == <<"1", "2", "3", "4">>
segDigitsThenLetters == <<"1", "2", "a", "b">>
segHex24 == <<"a", "b", "c", "1", "2", "3", "d", "e", "f", "4", "5", "6", "a", "b", "c", "1", "2", "3", "d", "e", "f", "4", "5", "6">>
segHex19 == <<"a", "b", "c", "d", "e", "f", "a", "b", "c", "d", "e", "f", "a", "b", "c", "d", "e", "f", "a">>
segHex20 == <<"a", "b", "c", "d", "e", "f", "a", "b", "c", "d", "e", "f", "a", "b", "c", "d", "e", "f", "a", "b">>
segHex20ThenLetters == <<"a", "b", "c", "d", "e", "f", "a", "b", "c", "d", "e", "f", "a", "b", "c", "d", "e", "f", "a", "b", "x", "y", "z">>
segUuidDigitFirst == <<"1", "2", "3", "e", "4", "5", "6", "7", "-", "e", "8", "9", "b", "-", "1", "2", "d", "3", "-", "a", "4", "5", "6", "-", "4", "2", "6", "6", "1", "4", "1", "7", "4", "0", "0", "0">>
segElectronics == <<"e", "l", "e", "c", "t", "r", "o", "n", "i", "c", "s">>

Segments ==
    {segProduct, segP, segDigits, segDigitsThenLetters, segHex24, segHex19,
     segHex20, segHex20ThenLetters, segUuidDigitFirst, segElectronics}

\* the prefixes of an input: none (a URL path), an https origin, and a URL
\* of a scheme "x" whose opaque path begins "y:"
PathOnly == <<>>
HttpsPrefix == <<"h", "t", "t", "p", "s", ":", "/", "/", "h">>
OpaquePrefix == <<"x", ":", "y", ":">>

Prefixes == {PathOnly, HttpsPrefix, OpaquePrefix}

Queries == {<<>>, <<"?", "p", "a", "g", "e", "=", "2">>}

RECURSIVE JoinSegments(_)
JoinSegments(segs) ==
    IF segs = <<>> THEN <<>> ELSE <<"/">> \o Head(segs) \o JoinSegments(Tail(segs))

SegmentLists == UNION {[1..n -> Segments] : n \in 1..MaxSegments}

GeneralizeInputs ==
    {[fn |-> "extractUrlPattern", prefix |-> p, segments |-> segs, query |-> q,
      url |-> p \o JoinSegments(segs) \o q] :
        p \in Prefixes, segs \in SegmentLists, q \in Queries}

GeneralizeInit ==
    /\ CrawlerParked
    /\ ServerIdle
    /\ hIn \in GeneralizeInputs
    /\ hOut = NoOutput

\* extractUrlPattern(url), and extractUrlPattern of its result
Generalize ==
    /\ hIn.fn = "extractUrlPattern"
    /\ hOut = NoOutput
    /\ hOut' = [fn |-> "extractUrlPattern",
                pattern |-> extractUrlPattern(hIn.url),
                again |-> extractUrlPattern(extractUrlPattern(hIn.url))]
    /\ UNCHANGED hIn
    /\ UNCHANGED <<crawlerVars, serverVars>>

GeneralizeNext == Generalize

GeneralizeSpec == GeneralizeInit /\ [][GeneralizeNext]_vars

Generalized == hOut # NoOutput /\ hOut.fn = "extractUrlPattern"

\* C21 as stated: for every URL or URL path u,
\* generalize(generalize(u)) = generalize(u).
C21_Idempotent ==
    Generalized => hOut.again = hOut.pattern

\* C21 (amended): for every http(s) URL and every URL path (a string with no
\* scheme), generalize(generalize(u)) = generalize(u).
C21_IdempotentOnHttpUrlsAndPaths ==
    (Generalized /\ hIn.prefix \in {PathOnly, HttpsPrefix}) =>
        hOut.again = hOut.pattern

\* an https URL whose pattern differs from its path, generalized twice
C21_Witness ==
    /\ Generalized
    /\ hIn.prefix = HttpsPrefix
    /\ hIn.segments = <<segProduct, segDigits>>
    /\ hOut.pattern = <<"/">> \o segProduct \o <<"/", ":", "i", "d">>
    /\ hOut.again = hOut.pattern

AllIn(seg, set) == \A i \in 1..Len(seg) : seg[i] \in set

\* what the claim says becomes of one path segment
SegmentPattern(seg) ==
    IF AllIn(seg, DigitChars) THEN <<":", "i", "d">>
    ELSE IF Len(seg) >= 20 /\ AllIn(seg, HexDashChars) THEN <<":", "u", "u", "i", "d">>
    ELSE seg

\* C22: of an http(s) URL the generalizer keeps the path, without the query,
\* with exactly the all-digit segments replaced by :id and exactly the
\* segments of 20 or more hex digits and dashes replaced by :uuid.
C22_SegmentwiseGeneralization ==
    (Generalized /\ hIn.prefix = HttpsPrefix) =>
        hOut.pattern =
            JoinSegments([i \in 1..Len(hIn.segments) |-> SegmentPattern(hIn.segments[i])])

(***************************************************************************)
(* Product sampling                                                        *)
(***************************************************************************)
ProductRequests == {i \in 1..Len(requests) : requests[i].stage = "product"}

\* every product request follows the request of the category page it was
\* sampled from, and asks for the first of the links extracted from it
OneSamplePerCategoryPage ==
    \A i \in ProductRequests :
        /\ i > 1
        /\ requests[i - 1].stage = "candidate"
        /\ Len(requests[i].links) \in 1..ProductLinkLimit
        /\ requests[i].url = resolveUrl(requests[i].links[1].url, baseUrl)

\* the category page of a product request is a fetched page classified
\* Category or ProductListing
SampledFromCategoryPage ==
    \A i \in ProductRequests :
        \E k \in 1..Len(responses) :
            /\ responses[k].url = requests[i - 1].url
            /\ responses[k].stage = "candidate"
            /\ responses[k].kind = "ok"
            /\ IsCategoryType(responses[k].type)

\* no product request is issued once a ProductDetail template is recorded
NoSampleAfterPdp ==
    templates[PDP] # NoTemplate => Len(requests') = Len(requests) \/
        requests'[Len(requests')].stage # "product"

\* a product sample that failed or is not ProductDetail changes nothing
SampleSettles ==
    /\ Len(responses') = Len(responses) + 1
    /\ responses'[Len(responses')].stage = "product"

DiscardedSample ==
    (SampleSettles /\ responses'[Len(responses')].type # PDP) =>
        /\ templates' = templates
        /\ entities' = entities
        /\ siteMap' = siteMap
        /\ requests' = requests

\* C23: a product request is issued only for a fetched page classified
\* Category or ProductListing, at most one for each, for the first product
\* link extracted from it; a sample that failed or is not ProductDetail is
\* dropped and not retried; no product request is issued once a
\* ProductDetail template is recorded.
C23_SingleShotSampling ==
    /\ [](OneSamplePerCategoryPage /\ SampledFromCategoryPage)
    /\ [][NoSampleAfterPdp /\ DiscardedSample]_vars

\* a first category page whose sample gave the ProductDetail template, and a
\* second category page, with product links, visited after it with no sample
C23_Witness ==
    /\ pc = "done"
    /\ Cardinality(ProductRequests) = 1
    /\ templates[PDP] # NoTemplate
    /\ Len(entities) = 2
    /\ Len(requests) = 4
    /\ requests[3].stage = "product"
    /\ Len(requests[3].links) > 1

(***************************************************************************)
(* Candidates that are not visited                                         *)
(***************************************************************************)
\* new URL(href, baseUrl) throws
Unresolvable(href) == ~ParsesWithBase(href, baseUrl)

\* the resolved URL is on another host, names a static asset or lies under
\* a non-content directory
Ineligible(u) ==
    \/ ~Parses(u)
    \/ Hostname(u.origin) # Hostname(baseUrl.origin)
    \/ \E e \in VisitExcludeExts : EndsWith(Lower(Str(u)), <<".">> \o e)
    \/ \E d \in VisitExcludeDirs : Contains(Lower(Str(u)), <<"/">> \o d \o <<"/">>)

\* the loop is at a candidate it will not visit
AtRejectedCandidate ==
    /\ pc = "loop"
    /\ idx <= Len(categoryLinks)
    /\ Cardinality(visitedUrls) < maxPages
    /\ \/ Unresolvable(categoryLinks[idx].url)
       \/ Ineligible(resolveUrl(categoryLinks[idx].url, baseUrl))

\* C24: a candidate that does not resolve to a URL, or whose resolved URL is
\* on another host, a static asset or under a non-content path, is passed
\* over: the loop moves to the next candidate, no request is issued, the run
\* does not fail, and the visited set, siteMap, entities and templates stay
\* as they are.
C24_RejectedCandidateSkipped ==
    [][AtRejectedCandidate =>
        /\ idx' = idx + 1
        /\ pc' = "loop"
        /\ UNCHANGED <<visitedUrls, requests, responses, inflight, siteMap,
                       entities, templates>>]_vars

\* a run that went past a candidate on another host, a malformed one and a
\* static asset, and visited a later candidate
C24_Witness ==
    /\ pc = "loop"
    /\ idx > Len(categoryLinks)
    /\ \E i, j, k \in 1..Len(categoryLinks) :
           /\ categoryLinks[i].url = hrefOther
           /\ categoryLinks[j].url = hrefBad
           /\ categoryLinks[k].url = hrefJs
    /\ \A i \in 1..Len(siteMap) :
           siteMap[i].origin = BaseOrigin /\ ~EndsWith(siteMap[i].path, <<".", "j", "s">>)
    /\ Len(siteMap) >= 1
    /\ Len(requests) = 1 + Len(siteMap)

(***************************************************************************)
(* Invocations of analyzeSite                                              *)
(***************************************************************************)
Invocations ==
    {c \in CallIds : calls[c].state \in {"running", "done"} /\ calls[c].tool = "analyze_site"}

\* C25: every invocation of analyzeSite begins with an empty visited set that
\* no other invocation, earlier or running at the same time, of the same URL
\* or of another, holds; so no invocation finds its root page visited already.
C25_InvocationsIsolated ==
    \A c \in Invocations :
        /\ calls[c].visitedAtStart = {}
        /\ \A d \in Invocations \ {c} :
               calls[d].crawler.visitedUrls # calls[c].crawler.visitedUrls
        /\ calls[c].state = "done" => calls[c].rootFetched

\* an invocation for a URL analysed before, returning a model with entities
\* while a third invocation for the same URL is running
C25_Witness ==
    /\ Invocations = {1, 2, 3}
    /\ calls[1].state = "done"
    /\ calls[2].state = "done"
    /\ calls[3].state = "running"
    /\ calls[1].url = calls[2].url
    /\ calls[2].url = calls[3].url
    /\ calls[2].structure.entities # <<>>
    /\ visitedSets[calls[1].crawler.visitedUrls] # {}
    /\ visitedSets[calls[3].crawler.visitedUrls] = {}

(***************************************************************************)
(* The cached models under the read tools                                  *)
(***************************************************************************)
CachedUrls == {u \in CallUrls : siteCache[u] # NoModel}

\* a read tool answers, with a result or with an error
ReadStep ==
    \E c \in CallIds :
        /\ calls[c].state = "idle"
        /\ calls'[c].state \in {"done", "failed"}
        /\ calls'[c].tool \in ReadTools

SameModel(m, n) ==
    /\ m.domain = n.domain
    /\ m.analyzedAt = n.analyzedAt
    /\ m.templates = n.templates
    /\ m.entities = n.entities
    /\ m.siteMap = n.siteMap
    /\ m.robotsTxt = n.robotsTxt

\* C26: get_site_categories, get_page_templates and generate_crawl_scenarios,
\* with any format and also when they fail, leave the set of cached URL
\* strings and the domain, analyzedAt, templates, entities, siteMap and
\* robotsTxt of every cached model as they were.
C26_ReadsKeepModels ==
    [][ReadStep =>
        /\ {u \in CallUrls : siteCache'[u] # NoModel} = CachedUrls
        /\ \A u \in CachedUrls : SameModel(siteCache'[u], siteCache[u])]_vars

\* a model with entities read by generate_crawl_scenarios twice, once with a
\* format that is refused
C26_Witness ==
    /\ calls[1].state = "done"
    /\ calls[1].tool = "analyze_site"
    /\ calls[1].structure.entities # <<>>
    /\ calls[2].state = "failed"
    /\ calls[2].tool = "generate_crawl_scenarios"
    /\ calls[2].error = InvalidFormat
    /\ calls[3].state = "done"
    /\ calls[3].tool = "generate_crawl_scenarios"
    /\ calls[3].url = calls[1].url
    /\ calls[2].url = calls[1].url
    /\ siteCache[calls[1].url] = calls[1].structure

(***************************************************************************)
(* Hosts, entities and template types of a run                             *)
(***************************************************************************)
\* C27: every page request of a run, for the root, a candidate or a product
\* sample, is for a URL on the host of the root URL.
C27_RequestsStayOnRootHost ==
    \A i \in 1..Len(requests) :
        Parses(requests[i].url) =>
            Hostname(requests[i].url.origin) = Hostname(baseUrl.origin)

\* the URLs asked for as product samples
SampleUrls == {requests[i].url : i \in ProductRequests}

TemplateKeys == {t \in PageTemplateType : templates[t] # NoTemplate}

LongInit ==
    /\ url = LongRoot
    /\ baseUrl = Url(url.origin, StripTrailingSlash(url.path))
    /\ maxPages = DefaultMaxPages
    /\ visitedUrls = {}
    /\ templates = [t \in PageTemplateType |-> NoTemplate]
    /\ entities = <<>>
    /\ siteMap = <<>>
    /\ robotsTxt = "undefined"
    /\ categoryLinks = <<>>
    /\ idx = 1
    /\ pc = "start"
    /\ inflight = <<>>
    /\ result = NoResult
    /\ requests = <<>>
    /\ responses = <<>>
    /\ robotsFetches = 0
    /\ ServerIdle
    /\ FunctionsIdle

TerminationInit == Init \/ LongInit

\* every awaited request settles (axios resolves, rejects or times out) and
\* the event loop then runs the continuation, so an enabled step is taken
TerminationSpec == TerminationInit /\ [][Next]_vars /\ WF_vars(Next)

\* the largest number of page fetches of one run
FetchLimit == 1 + 2 * CategoryLinkLimit

RequestsAt(stage) == {i \in 1..Len(requests) : requests[i].stage = stage}

FetchesBounded ==
    /\ Len(categoryLinks) <= CategoryLinkLimit
    /\ idx <= Len(categoryLinks) + 1
    /\ Cardinality(RequestsAt("root")) <= 1
    /\ Cardinality(RequestsAt("candidate")) <= Min(idx, Len(categoryLinks))
    /\ Cardinality(RequestsAt("product")) <= Cardinality(RequestsAt("candidate"))
    /\ Len(requests) <= FetchLimit
    /\ Len(siteMap) <= CategoryLinkLimit

=============================================================================
